---- MODULE Spec2Model ----
(***************************************************************************)
(* A model of dev-postgres-mcp's instance lifecycle: the port allocator    *)
(* (docker.PortManager), the per-kind engines (database.GenericManager)    *)
(* and the unified registry (database.UnifiedManager), running against an  *)
(* abstract container runtime.                                             *)
(*                                                                         *)
(* Client goroutines are modelled as threads with a call stack of frames;  *)
(* one action is one step of a handler between two suspension points (a    *)
(* runtime call, a lock acquisition).  A lock acquisition is merged with   *)
(* the critical section it opens when that section is a single step.       *)
(***************************************************************************)
EXTENDS Integers, Sequences, FiniteSets, TLC

VARIABLES
    containers,   \* the runtime's containers (a set of container records)
    allocated,    \* PortManager.allocated
    osBound,      \* ports bound on 127.0.0.1 by other processes
    pmMu,         \* PortManager.mu: the thread holding it, or NoThread
    engInst,      \* GenericManager.instances, one map per kind
    uniInst,      \* UnifiedManager.instances
    engMu,        \* GenericManager.mu per kind: the writer holding it across a step
    stack,        \* per thread: the call stack (a sequence of frames, top last)
    rv,           \* per thread: the result of the call that returned last
    ctxDone,      \* per thread: the caller's context is cancelled
    rtFault,      \* history, per thread: a runtime call of the thread's last operation
                  \* failed, or a container was removed from outside since it began
    usedIds,      \* instance ids GenerateInstanceID has handed out
    opsLeft,      \* public operations and outside interventions still to come
    clients,      \* the threads that issue operations
    grants,       \* history: per port, AllocatePort grants not yet released
    created,      \* history: instances returned by successful CreateInstance calls
    dropped       \* history: ids of the instances a successful DropInstance resolved

vars == <<containers, allocated, osBound, pmMu, engInst, uniInst, engMu, stack, rv,
          ctxDone, rtFault, usedIds, opsLeft, clients, grants, created, dropped>>

(***************************************************************************)
(* Bounds and universes                                                    *)
(***************************************************************************)
StartPort == 9
EndPort == 10
MaxOps == 3
MaxOpsReuse == 5
MaxOpsCleanup == 2
MaxOpsForeign == 2
MaxOpsTools == 3
MaxOpsReady == 2
MaxOpsConcurrent == 2
MaxOpsRace == 2
MaxPolls == 2

Threads == {"t1", "t2"}
NoThread == "none"

\* The universe of instance ids: sequences of hex digits of one length, in the order
\* GenerateInstanceID hands them out.  The first two share a proper prefix, the third
\* shares none with them.
IDOrder == << <<"a", "b", "c">>, <<"a", "c", "d">>, <<"b", "c", "d">> >>
InstanceIDs == {IDOrder[n] : n \in 1..Len(IDOrder)}

Kinds == {"postgresql", "mysql", "mariadb"}

Ports == StartPort..EndPort

(***************************************************************************)
(* Strings                                                                 *)
(***************************************************************************)
HasPrefix(s, p) == Len(p) <= Len(s) /\ SubSeq(s, 1, Len(p)) = p

\* Every string a caller can pass as an identifier: the prefixes of the ids.
Prefixes == {SubSeq(i, 1, n) : i \in InstanceIDs, n \in 0..Len(IDOrder[1])}

\* The identifiers the clients pass: the empty string, a prefix two ids share, a
\* prefix of one id only, a full id, and a prefix of the last id handed out.
IdArgs == {<<>>, <<"a">>, <<"a", "b">>, <<"a", "b", "c">>, <<"b">>}

Digit == <<"0", "1", "2", "3", "4", "5", "6", "7", "8", "9">>

RECURSIVE Itoa(_)
Itoa(n) == IF n < 10 THEN <<Digit[n + 1]>>
           ELSE Itoa(n \div 10) \o <<Digit[(n % 10) + 1]>>

DigitValue(c) == CHOOSE d \in 0..9 : Digit[d + 1] = c

IsNumber(s) == Len(s) > 0 /\ \A i \in 1..Len(s) : \E d \in 0..9 : Digit[d + 1] = s[i]

RECURSIVE AtoiDigits(_)
AtoiDigits(s) == IF Len(s) = 0 THEN 0
                 ELSE 10 * AtoiDigits(SubSeq(s, 1, Len(s) - 1)) + DigitValue(s[Len(s)])

\* The first digit only.
AtoiFirstDigit(s) == IF IsNumber(s) THEN DigitValue(s[1]) ELSE 0

\* strconv.Atoi with the error dropped: 0 for a string that is no number.
Atoi(s) == IF IsNumber(s) THEN AtoiDigits(s) ELSE 0

(***************************************************************************)
(* docker.PortManager                                                      *)
(***************************************************************************)
\* Ports bound on the loopback interface by running containers.
ContainerBound == {c.HostPort : c \in {x \in containers : x.State = "running"}}

isPortAvailableNoProbe(port) == TRUE

\* net.Listen("tcp", "127.0.0.1:port") succeeds iff nothing is bound there.
isPortAvailable(port) == port \notin osBound /\ port \notin ContainerBound

\* History: {port} if a listener is bound on 127.0.0.1:port right now, else {}.
BoundNow(port) == {port} \cap (osBound \cup ContainerBound)

CanLockAlways(mu) == TRUE

\* pm.mu.Lock(): blocks while another goroutine holds the mutex.
CanLock(mu) == mu = NoThread

(***************************************************************************)
(* Values                                                                  *)
(***************************************************************************)
NoID == <<>>

NoOpts == [Type |-> "", Version |-> "", Database |-> "", Username |-> "", Password |-> ""]

\* The nil *types.DatabaseInstance.
NoInst == [ID |-> NoID, Type |-> "", ContainerID |-> NoID, Port |-> 0, Database |-> "",
           Username |-> "", Password |-> "", Version |-> "", DSN |-> <<>>, Status |-> ""]

\* History: the held set and the registries as a call found them (NoPre: not recorded).
NoPre == <<>>
Snapshot == [allocated |-> allocated, engInst |-> engInst, uniInst |-> uniInst]

\* A tool call request: the tool's name and its arguments (hasId: the arguments hold a
\* string under "instance_id").
NoReq == [name |-> "", type |-> "", hasId |-> FALSE, instance_id |-> NoID]

\* A stack frame: the procedure, its program counter and its locals.  tried is history:
\* the ids Cleanup has called DropInstance with.  held0, failed
\* and overlap are history: the held set when AllocatePort took the mutex; the ports
\* that were bound when AllocatePort probed them; another AllocatePort call was in
\* progress when this one began.
Frame(proc, pc) ==
    [proc |-> proc, pc |-> pc, kind |-> "", id |-> NoID, opts |-> NoOpts, inst |-> NoInst,
     port |-> 0, cid |-> NoID, err |-> "", todo |-> {}, acc |-> {}, errs |-> {},
     held0 |-> {}, failed |-> {}, overlap |-> FALSE, pre |-> NoPre, tried |-> {},
     req |-> NoReq, polls |-> 0]

\* What a call returned: the error kind ("" is nil) and the values.  For a tool call:
\* isError, the transport error terr ("" is nil), and as history the request req and
\* the manager operations ops the handler called.  The fields from
\* held0 on are history: what the call met on its way (see the steps that set them).
Result(op, err) ==
    [op |-> op, id |-> NoID, kind |-> "", err |-> err, inst |-> NoInst, list |-> {},
     port |-> 0, health |-> "", held0 |-> {}, held1 |-> {}, failed |-> {},
     overlap |-> FALSE, pre |-> NoPre, tried |-> {},
     isError |-> FALSE, terr |-> "", req |-> NoReq, ops |-> {}, warn |-> {}]

NoResult == Result("", "")

Idle(t) == stack[t] = <<>>
Top(t) == stack[t][Len(stack[t])]
At(t, proc, pc) == ~Idle(t) /\ Top(t).proc = proc /\ Top(t).pc = pc
Caller(t) == SubSeq(stack[t], 1, Len(stack[t]) - 1)

\* The stack with the top frame replaced.
SetTop(t, f) == [stack EXCEPT ![t] = Append(Caller(t), f)]
\* The stack after a call: the caller resumes at its frame f, the callee starts at g.
Call(t, f, g) == [stack EXCEPT ![t] = Append(Append(Caller(t), f), g)]
\* The stack after the top frame returned.
Ret(t) == [stack EXCEPT ![t] = Caller(t)]

\* ctx.Err() != nil: every runtime call made with a cancelled context fails.
Cancelled(t) == ctxDone[t]

(***************************************************************************)
(* PortManager.AllocatePort, step by step                                  *)
(***************************************************************************)
\* A loop that begins one port above pm.startPort.
PmLockHigh(t) ==
    /\ At(t, "AllocatePort", "lock")
    /\ CanLock(pmMu)
    /\ pmMu' = t
    /\ stack' = SetTop(t, [Top(t) EXCEPT !.pc = "check", !.port = StartPort + 1,
                                          !.held0 = allocated])
    /\ UNCHANGED <<containers, allocated, osBound, engInst, uniInst, engMu, rv, ctxDone,
                   rtFault, usedIds, opsLeft, clients, grants, created, dropped>>

\* pm.mu.Lock(); port := pm.startPort
PmLock(t) ==
    /\ At(t, "AllocatePort", "lock")
    /\ CanLock(pmMu)
    /\ pmMu' = t
    /\ stack' = SetTop(t, [Top(t) EXCEPT !.pc = "check", !.port = StartPort,
                                          !.held0 = allocated])
    /\ UNCHANGED <<containers, allocated, osBound, engInst, uniInst, engMu, rv, ctxDone,
                   rtFault, usedIds, opsLeft, clients, grants, created, dropped>>

\* The mutex released by the deferred pm.mu.Unlock(), if this thread holds it.
Unlocked(t) == IF pmMu = t THEN NoThread ELSE pmMu

\* The loop stops one port short of pm.endPort.
PmCheckShort(t) ==
    /\ At(t, "AllocatePort", "check")
    /\ LET f == Top(t) IN
       IF f.port >= EndPort
       THEN /\ pmMu' = Unlocked(t)
            /\ stack' = Ret(t)
            /\ rv' = [rv EXCEPT ![t] = [Result("AllocatePort", "NoFreePort") EXCEPT
                                          !.overlap = f.overlap, !.held0 = f.held0,
                                          !.held1 = allocated, !.failed = f.failed]]
       ELSE /\ stack' = SetTop(t, IF f.port \in allocated
                                  THEN [f EXCEPT !.port = f.port + 1]
                                  ELSE [f EXCEPT !.pc = "probe"])
            /\ UNCHANGED <<pmMu, rv>>
    /\ UNCHANGED <<containers, allocated, osBound, engInst, uniInst, engMu, ctxDone,
                   rtFault, usedIds, opsLeft, clients, grants, created, dropped>>

\* for port <= pm.endPort: if pm.allocated[port] { continue }; after the loop, the error
PmCheck(t) ==
    /\ At(t, "AllocatePort", "check")
    /\ LET f == Top(t) IN
       IF f.port > EndPort
       THEN /\ pmMu' = Unlocked(t)
            /\ stack' = Ret(t)
            /\ rv' = [rv EXCEPT ![t] = [Result("AllocatePort", "NoFreePort") EXCEPT
                                          !.overlap = f.overlap, !.held0 = f.held0,
                                          !.held1 = allocated, !.failed = f.failed]]
       ELSE /\ stack' = SetTop(t, IF f.port \in allocated
                                  THEN [f EXCEPT !.port = f.port + 1]
                                  ELSE [f EXCEPT !.pc = "probe"])
            /\ UNCHANGED <<pmMu, rv>>
    /\ UNCHANGED <<containers, allocated, osBound, engInst, uniInst, engMu, ctxDone,
                   rtFault, usedIds, opsLeft, clients, grants, created, dropped>>

\* if pm.isPortAvailable(port) { pm.allocated[port] = true; return port, nil }
PmProbe(t) ==
    /\ At(t, "AllocatePort", "probe")
    /\ LET f == Top(t) IN
       IF isPortAvailable(f.port)
       THEN /\ allocated' = allocated \cup {f.port}
            /\ grants' = [grants EXCEPT ![f.port] = @ + 1]
            /\ pmMu' = Unlocked(t)
            /\ stack' = Ret(t)
            /\ rv' = [rv EXCEPT ![t] = [Result("AllocatePort", "") EXCEPT
                                          !.port = f.port, !.overlap = f.overlap,
                                          !.held0 = f.held0,
                                          !.held1 = allocated \cup {f.port},
                                          !.failed = f.failed \cup BoundNow(f.port)]]
       ELSE /\ stack' = SetTop(t, [f EXCEPT !.pc = "check", !.port = f.port + 1,
                                            !.failed = f.failed \cup BoundNow(f.port)])
            /\ UNCHANGED <<allocated, grants, pmMu, rv>>
    /\ UNCHANGED <<containers, osBound, engInst, uniInst, engMu, ctxDone,
                   rtFault, usedIds, opsLeft, clients, created, dropped>>

\* A release that deletes nothing.
KeepPort(held, port) == held

\* A release that empties the map.
ReleaseAll(held, port) == {}

\* PortManager.ReleasePort: delete(pm.allocated, port), under the mutex.
ReleasePort(held, port) == held \ {port}

\* PortManager.IsPortAllocated: pm.allocated[port], under the mutex.
IsPortAllocated(port) == port \in allocated

\* PortManager.GetAllocatedPorts: the keys of pm.allocated, under the mutex.
GetAllocatedPorts == {port \in Ports : IsPortAllocated(port)}

(***************************************************************************)
(* pkg/types: kinds, options, DSN                                          *)
(***************************************************************************)
IsValid(dt) == dt \in Kinds

DefaultVersion(dt) ==
    CASE dt = "postgresql" -> "17" [] dt = "mysql" -> "8.0" [] dt = "mariadb" -> "11"
      [] OTHER -> ""

DefaultDatabase(dt) ==
    CASE dt = "postgresql" -> "postgres" [] dt \in {"mysql", "mariadb"} -> "mysql"
      [] OTHER -> ""

DefaultUsername(dt) ==
    CASE dt = "postgresql" -> "postgres" [] dt \in {"mysql", "mariadb"} -> "root"
      [] OTHER -> ""

\* GeneratePassword(16): 16 random URL-safe characters, one opaque value here.
GeneratedPasswords == {"<random16>"}

\* ValidateCreateInstanceOptions: the options with the defaults filled in (pw is the
\* generated password), or an error.
ValidateCreateInstanceOptions(opts, pw) ==
    LET ty == IF opts.Type = "" THEN "postgresql" ELSE opts.Type IN
    IF ~IsValid(ty)
    THEN [err |-> "InvalidOption", opts |-> [opts EXCEPT !.Type = ty]]
    ELSE [err |-> "",
          opts |-> [Type |-> ty,
                    Version |-> IF opts.Version = "" THEN DefaultVersion(ty)
                                ELSE opts.Version,
                    Database |-> IF opts.Database = "" THEN DefaultDatabase(ty)
                                 ELSE opts.Database,
                    Username |-> IF opts.Username = "" THEN DefaultUsername(ty)
                                 ELSE opts.Username,
                    Password |-> IF opts.Password = "" THEN pw ELSE opts.Password]]

\* BuildDSN: the pieces fmt.Sprintf concatenates, %d being the decimal port.
BuildDSN(instance) ==
    CASE instance.Type = "postgresql" ->
            <<"postgres://", instance.Username, ":", instance.Password, "@localhost:",
              Itoa(instance.Port), "/", instance.Database, "?sslmode=disable">>
      [] instance.Type \in {"mysql", "mariadb"} ->
            <<instance.Username, ":", instance.Password, "@tcp(localhost:",
              Itoa(instance.Port), ")/", instance.Database>>
      [] OTHER -> <<>>

\* The options callers pass to CreateInstance.
CreateInputs ==
    { NoOpts,
      [Type |-> "mysql", Version |-> "8.4", Database |-> "app", Username |-> "",
       Password |-> "pw"],
      [Type |-> "mysql", Version |-> "8.4", Database |-> "app", Username |-> "",
       Password |-> "pw2"],
      [Type |-> "sqlite", Version |-> "", Database |-> "", Username |-> "",
       Password |-> ""] }

(***************************************************************************)
(* The container runtime                                                   *)
(***************************************************************************)
LManaged == "dev-postgres-mcp.managed"
LType == "dev-postgres-mcp.type"
LInstanceID == "dev-postgres-mcp.instance-id"
LDatabase == "dev-postgres-mcp.database"
LUsername == "dev-postgres-mcp.username"
LVersion == "dev-postgres-mcp.version"
LPort == "dev-postgres-mcp.port"
LCreatedAt == "dev-postgres-mcp.created-at"

\* The labels createContainer writes; time is not modelled.
\* The labels with the password among them.
ContainerLabelsWithPassword(kind, instanceID, opts, port) ==
    (LManaged :> "true") @@ (LType :> kind) @@ (LInstanceID :> instanceID)
    @@ (LDatabase :> opts.Database) @@ (LUsername :> opts.Username)
    @@ (LVersion :> opts.Version) @@ (LPort :> Itoa(port)) @@ (LCreatedAt :> "now")
    @@ ("dev-postgres-mcp.password" :> opts.Password)

ContainerLabels(kind, instanceID, opts, port) ==
    (LManaged :> "true") @@ (LType :> kind) @@ (LInstanceID :> instanceID)
    @@ (LDatabase :> opts.Database) @@ (LUsername :> opts.Username)
    @@ (LVersion :> opts.Version) @@ (LPort :> Itoa(port)) @@ (LCreatedAt :> "now")

\* The id the daemon gives the container named dev-<kind>-mcp-<instanceID>: names are
\* unique, so there is one container id per instance id.
NewContainerID(instanceID) == <<"c">> \o instanceID

\* The Health of an inspect result whose State.Health is nil (the container has no
\* health check); every other value is the Status of a Health that is there.
NoHealth == "nil"

\* A container as Manager.CreateGenericContainer creates it: bound to 127.0.0.1:port,
\* with a health check, not started.
NewContainer(kind, instanceID, opts, port) ==
    [ID |-> NewContainerID(instanceID),
     Labels |-> ContainerLabels(kind, instanceID, opts, port),
     HostPort |-> port, State |-> "created", Health |-> "starting"]

Exists(cid) == \E c \in containers : c.ID = cid
ContainerByID(cid) == CHOOSE c \in containers : c.ID = cid

\* Client.RemoveContainer (force): the containers left.
RemoveContainer(cid) == {c \in containers : c.ID # cid}

\* Client.StartContainer: the container running, its health check starting.
StartContainer(cid) ==
    {IF c.ID = cid THEN [c EXCEPT !.State = "running", !.Health = "starting"] ELSE c :
        c \in containers}

\* Client.StopContainer: the container exited.  The health of a container that is not
\* running is never read; it is kept at "starting".
StopContainer(cid) ==
    {IF c.ID = cid THEN [c EXCEPT !.State = "exited", !.Health = "starting"] ELSE c :
        c \in containers}

\* Manager.ListContainersByType: All: true, filtered by the managed and type labels.
ListContainersByType(kind) ==
    {c \in containers : c.Labels[LManaged] = "true" /\ c.Labels[LType] = kind}

\* The outcomes of a runtime call made by thread t: it fails when the context is
\* cancelled, and it may fail for the daemon's own reasons.
CallOutcomes(t) == IF Cancelled(t) THEN {FALSE} ELSE BOOLEAN

(***************************************************************************)
(* Registries: map[string]*DatabaseInstance as the set of its values, each *)
(* stored under its own ID                                                 *)
(***************************************************************************)
Has(reg, id) == \E i \in reg : i.ID = id
Get(reg, id) == CHOOSE i \in reg : i.ID = id
Delete(reg, id) == {i \in reg : i.ID # id}
Put(reg, inst) == Delete(reg, inst.ID) \cup {inst}

(***************************************************************************)
(* Calls and returns                                                       *)
(***************************************************************************)
\* A client goroutine may start a public operation: a fresh context, no result yet.
Begin(t) ==
    /\ t \in clients
    /\ Idle(t)
    /\ opsLeft > 0
    /\ opsLeft' = opsLeft - 1
    /\ ctxDone' = [ctxDone EXCEPT ![t] = FALSE]
    /\ rtFault' = [rtFault EXCEPT ![t] = FALSE]
    /\ rv' = [rv EXCEPT ![t] = NoResult]

\* The top frame returns r to its caller.
Return(t, r) ==
    /\ stack' = Ret(t)
    /\ rv' = [rv EXCEPT ![t] = r]

\* rtFault after a runtime call of thread t that succeeded (ok) or failed.
Faulted(t, ok) == [rtFault EXCEPT ![t] = @ \/ ~ok]

(***************************************************************************)
(* UnifiedManager.CreateInstance and GenericManager.CreateInstance         *)
(***************************************************************************)
\* types.GenerateInstanceID: a UUID never handed out before.  The managers only
\* compare ids and take their prefixes, so the universe is handed out in one order.
GenerateInstanceID == IDOrder[Cardinality(usedIds) + 1]

\* Creates that have not drawn their id yet.
PendingCreates ==
    Cardinality({u \in Threads : \/ At(u, "UCreate", "validate")
                                 \/ At(u, "ECreate", "lock")})

\* A client calls UnifiedManager.CreateInstance(ctx, opts), while the id universe has
\* an id left for the call.
CallCreate(t, opts) ==
    /\ Begin(t)
    /\ Cardinality(usedIds) + PendingCreates < Cardinality(InstanceIDs)
    /\ stack' = [stack EXCEPT ![t] = <<[Frame("UCreate", "validate") EXCEPT
                                          !.opts = opts, !.pre = Snapshot]>>]
    /\ UNCHANGED <<containers, allocated, osBound, pmMu, engInst, uniInst, engMu,
                   usedIds, clients, grants, created, dropped>>

\* A port reserved before the options are validated, and kept when they are invalid.
UCreateValidateEager(t) ==
    /\ At(t, "UCreate", "validate")
    /\ \E pw \in GeneratedPasswords :
         LET f == Top(t)
             v == ValidateCreateInstanceOptions(f.opts, pw)
         IN IF v.err # ""
            THEN /\ allocated' = allocated \cup {StartPort}
                 /\ Return(t, Result("UCreate", v.err))
            ELSE /\ stack' = Call(t, [f EXCEPT !.pc = "store", !.opts = v.opts],
                                  [Frame("ECreate", "lock") EXCEPT
                                     !.kind = v.opts.Type, !.opts = v.opts])
                 /\ UNCHANGED <<allocated, rv>>
    /\ UNCHANGED <<containers, osBound, pmMu, engInst, uniInst, engMu,
                   ctxDone, rtFault, usedIds, opsLeft, clients, grants, created, dropped>>

\* ValidateCreateInstanceOptions, the manager lookup, then manager.CreateInstance.
UCreateValidate(t) ==
    /\ At(t, "UCreate", "validate")
    /\ \E pw \in GeneratedPasswords :
         LET f == Top(t)
             v == ValidateCreateInstanceOptions(f.opts, pw)
         IN IF v.err # ""
            THEN Return(t, Result("UCreate", v.err))
            ELSE /\ stack' = Call(t, [f EXCEPT !.pc = "store", !.opts = v.opts],
                                  [Frame("ECreate", "lock") EXCEPT
                                     !.kind = v.opts.Type, !.opts = v.opts])
                 /\ UNCHANGED rv
    /\ UNCHANGED <<containers, allocated, osBound, pmMu, engInst, uniInst, engMu,
                   ctxDone, rtFault, usedIds, opsLeft, clients, grants, created, dropped>>

\* m.mu.Lock(); instanceID := GenerateInstanceID(); m.docker.AllocatePort(ctx)
ECreateLock(t) ==
    /\ At(t, "ECreate", "lock")
    /\ LET f == Top(t) IN
       /\ CanLock(engMu[f.kind])
       /\ engMu' = [engMu EXCEPT ![f.kind] = t]
       /\ usedIds' = usedIds \cup {GenerateInstanceID}
       /\ stack' = Call(t, [f EXCEPT !.pc = "pull", !.id = GenerateInstanceID],
                        Frame("AllocatePort", "lock"))
    /\ UNCHANGED <<containers, allocated, osBound, pmMu, engInst, uniInst, rv,
                   ctxDone, rtFault, opsLeft, clients, grants, created, dropped>>

\* An exit on failure that leaves the engine's lock held.
ECreateFailKeepsLock(t, f, err) ==
    /\ CanLock(pmMu)
    /\ allocated' = ReleasePort(allocated, f.port)
    /\ grants' = [grants EXCEPT ![f.port] = 0]
    /\ UNCHANGED engMu
    /\ Return(t, [Result("ECreate", err) EXCEPT !.id = f.id, !.port = f.port])

\* The engine's exit on failure before a container exists:
\* m.docker.ReleasePort(port), the deferred m.mu.Unlock(), return the error.
ECreateFail(t, f, err) ==
    /\ CanLock(pmMu)
    /\ allocated' = ReleasePort(allocated, f.port)
    /\ grants' = [grants EXCEPT ![f.port] = 0]
    /\ engMu' = [engMu EXCEPT ![f.kind] = NoThread]
    /\ Return(t, [Result("ECreate", err) EXCEPT !.id = f.id, !.port = f.port])

\* if err != nil { return "failed to allocate port" }; createContainer: PullImage
ECreatePull(t) ==
    /\ At(t, "ECreate", "pull")
    /\ LET f == Top(t) IN
       IF rv[t].err # ""
       THEN /\ engMu' = [engMu EXCEPT ![f.kind] = NoThread]
            /\ Return(t, [Result("ECreate", "PortExhausted") EXCEPT
                             !.id = f.id, !.held0 = rv[t].held0, !.failed = rv[t].failed])
            /\ UNCHANGED <<allocated, grants, rtFault>>
       ELSE \E ok \in CallOutcomes(t) :
              /\ rtFault' = Faulted(t, ok)
              /\ IF ok
                 THEN /\ stack' = SetTop(t, [f EXCEPT !.pc = "create",
                                                      !.port = rv[t].port])
                      /\ UNCHANGED <<allocated, grants, engMu, rv>>
                 ELSE ECreateFail(t, [f EXCEPT !.port = rv[t].port], "ImageUnavailable")
    /\ UNCHANGED <<containers, osBound, pmMu, engInst, uniInst, ctxDone, usedIds, opsLeft,
                   clients, created, dropped>>

\* m.docker.CreateGenericContainer: the image again, then the container with its labels
ECreateCreate(t) ==
    /\ At(t, "ECreate", "create")
    /\ LET f == Top(t) IN
       \E ok \in CallOutcomes(t) :
         /\ rtFault' = Faulted(t, ok)
         /\ IF ok
            THEN /\ containers' =
                        containers \cup {NewContainer(f.kind, f.id, f.opts, f.port)}
                 /\ stack' = SetTop(t, [f EXCEPT !.pc = "start",
                                                 !.cid = NewContainerID(f.id)])
                 /\ UNCHANGED <<allocated, grants, engMu, rv>>
            ELSE /\ ECreateFail(t, f, "ContainerCreateFailed")
                 /\ UNCHANGED containers
    /\ UNCHANGED <<osBound, pmMu, engInst, uniInst, ctxDone, usedIds, opsLeft, clients,
                   created, dropped>>

\* m.docker.StartContainer: the daemon binds 127.0.0.1:port, which fails when the port
\* is taken; on failure createContainer goes on to remove the container.
ECreateStart(t) ==
    /\ At(t, "ECreate", "start")
    /\ LET f == Top(t) IN
       \E ok \in CallOutcomes(t) :
         /\ rtFault' = Faulted(t, ok)
         /\ IF ok /\ Exists(f.cid) /\ isPortAvailable(f.port)
            THEN /\ containers' = StartContainer(f.cid)
                 /\ stack' = SetTop(t, [f EXCEPT !.pc = "wait"])
            ELSE /\ stack' = SetTop(t, [f EXCEPT !.pc = "rollback",
                                                 !.err = "ContainerStartFailed"])
                 /\ UNCHANGED containers
    /\ UNCHANGED <<allocated, osBound, pmMu, engInst, uniInst, engMu, rv, ctxDone,
                   usedIds, opsLeft, clients, grants, created, dropped>>

\* The instance createContainer returns.
NewInstance(f) ==
    LET i == [ID |-> f.id, Type |-> f.kind, ContainerID |-> f.cid, Port |-> f.port,
              Database |-> f.opts.Database, Username |-> f.opts.Username,
              Password |-> f.opts.Password, Version |-> f.opts.Version, DSN |-> <<>>,
              Status |-> "running"]
    IN [i EXCEPT !.DSN = BuildDSN(i)]

\* What one turn of waitForHealthy's select makes of the wait: "" (healthy: return
\* nil), "continue", or the error.  done: ctx.Done() was chosen; ok: the inspect call's
\* outcome.
WaitVerdict(done, ok, cid) ==
    IF done THEN "ReadinessTimeout"
    ELSE IF ~(ok /\ Exists(cid)) THEN "InspectFailed"
    ELSE LET c == ContainerByID(cid) IN
         IF c.State # "running" THEN "ContainerStopped"
         ELSE CASE c.Health = "healthy" -> ""
                [] c.Health = "unhealthy" -> "ReadinessFailed"
                [] c.Health = "starting" -> "continue"
                [] OTHER -> ""

\* waitForHealthy: one turn of the select, ctx.Done() chosen (done) or the ticker, with
\* the inspect call's outcome ok; polls is the number of polls that went before the
\* next turn.  On success CreateInstance stores the instance and returns it.
WaitTurn(t, done, ok, polls) ==
    LET f == Top(t)
        v == WaitVerdict(done, ok, f.cid)
    IN /\ rtFault' = IF done THEN rtFault ELSE Faulted(t, ok)
       /\ CASE v = "" ->
                 /\ engInst' = [engInst EXCEPT ![f.kind] = Put(@, NewInstance(f))]
                 /\ engMu' = [engMu EXCEPT ![f.kind] = NoThread]
                 /\ Return(t, [Result("ECreate", "") EXCEPT
                                 !.id = f.id, !.inst = NewInstance(f)])
            [] v = "continue" ->
                 /\ stack' = SetTop(t, [f EXCEPT !.polls = polls])
                 /\ UNCHANGED <<engInst, engMu, rv>>
            [] OTHER ->
                 /\ stack' = SetTop(t, [f EXCEPT !.pc = "rollback", !.err = v])
                 /\ UNCHANGED <<engInst, engMu, rv>>
       /\ UNCHANGED <<containers, allocated, osBound, pmMu, uniInst, ctxDone, usedIds,
                      opsLeft, clients, grants, created, dropped>>

\* waitForHealthy without its clock: ctx.Done() is ready when the caller's context is
\* cancelled or the 60 s are over (any time, time not being modelled); the ticker may
\* be chosen all the same.
ECreateWait(t) ==
    /\ At(t, "ECreate", "wait")
    /\ \E done \in BOOLEAN, ok \in CallOutcomes(t) :
          WaitTurn(t, done, ok, Top(t).polls)

\* waitForHealthy that never sees its deadline and whose inspect always answers.
waitWithoutDeadline(t) ==
    /\ At(t, "ECreate", "wait")
    /\ \E done \in {d \in BOOLEAN : d => Cancelled(t)}, ok \in CallOutcomes(t) \ {FALSE} :
          WaitTurn(t, done, ok, Top(t).polls)

\* waitForHealthy with its clock: the ticker fires every 2 s and the context ends
\* after 60 s, MaxPolls ticks.  Before that ctx.Done() is ready only when the caller's
\* context is cancelled; the last tick comes together with the deadline, so either may
\* be chosen; after it only ctx.Done() is ready.  polls counts the polls made.
waitForHealthy(t) ==
    /\ At(t, "ECreate", "wait")
    /\ LET n == Top(t).polls IN
       \E done \in {d \in BOOLEAN : /\ d => (Cancelled(t) \/ n >= MaxPolls - 1)
                                    /\ n >= MaxPolls => d},
          ok \in CallOutcomes(t) :
          WaitTurn(t, done, ok, n + 1)

\* _ = m.docker.RemoveContainer(ctx, containerID), with the caller's context and the
\* error dropped; then CreateInstance releases the port and returns the error.
ECreateRollback(t) ==
    /\ At(t, "ECreate", "rollback")
    /\ LET f == Top(t) IN
       \E ok \in CallOutcomes(t) :
         /\ rtFault' = Faulted(t, ok)
         /\ containers' = IF ok THEN RemoveContainer(f.cid) ELSE containers
         /\ ECreateFail(t, f, f.err)
    /\ UNCHANGED <<osBound, pmMu, engInst, uniInst, ctxDone, usedIds, opsLeft, clients,
                   created, dropped>>

\* UnifiedManager.CreateInstance after manager.CreateInstance returned: the error, or
\* m.instances[instance.ID] = instance and the instance.
UCreateStore(t) ==
    /\ At(t, "UCreate", "store")
    /\ LET f == Top(t) IN
       IF rv[t].err # ""
       THEN /\ Return(t, [Result("UCreate", rv[t].err) EXCEPT
                            !.id = rv[t].id, !.port = rv[t].port, !.pre = f.pre,
                            !.held0 = rv[t].held0, !.failed = rv[t].failed])
            /\ UNCHANGED <<uniInst, created, dropped>>
       ELSE /\ uniInst' = Put(uniInst, rv[t].inst)
            /\ created' = created \cup {rv[t].inst}
            /\ Return(t, [Result("UCreate", "") EXCEPT
                            !.id = rv[t].id, !.inst = rv[t].inst])
    /\ UNCHANGED <<containers, allocated, osBound, pmMu, engInst, engMu, ctxDone,
                   rtFault, usedIds, opsLeft, clients, grants, dropped>>

(***************************************************************************)
(* GenericManager.ListInstances, GetInstance, DropInstance                 *)
(***************************************************************************)
\* The instance ListInstances rebuilds from a container's labels.  The password is in
\* no label: the field keeps its zero value.
InstanceFromContainer(kind, cont) ==
    LET i == [ID |-> cont.Labels[LInstanceID], Type |-> kind, ContainerID |-> cont.ID,
              Port |-> Atoi(cont.Labels[LPort]), Database |-> cont.Labels[LDatabase],
              Username |-> cont.Labels[LUsername], Password |-> "",
              Version |-> cont.Labels[LVersion], DSN |-> <<>>,
              Status |-> IF cont.State = "running" THEN "running" ELSE cont.State]
    IN [i EXCEPT !.DSN = BuildDSN(i)]

\* The instances of every kind.
ListedInstancesAnyKind(kind) ==
    {InstanceFromContainer(kind, c) :
        c \in {x \in containers : x.Labels[LInstanceID] # NoID}}

\* The instances ListInstances builds from the containers the runtime lists.
ListedInstances(kind) ==
    {InstanceFromContainer(kind, c) :
        c \in {x \in ListContainersByType(kind) : x.Labels[LInstanceID] # NoID}}

\* m.listContainers(ctx) and the loop over the summaries
EListList(t) ==
    /\ At(t, "EList", "list")
    /\ LET f == Top(t) IN
       \E ok \in CallOutcomes(t) :
         /\ rtFault' = Faulted(t, ok)
         /\ IF ok
            THEN /\ stack' = SetTop(t, [f EXCEPT !.pc = "store",
                                                 !.acc = ListedInstances(f.kind)])
                 /\ UNCHANGED rv
            ELSE Return(t, [Result("EList", "ListFailed") EXCEPT !.kind = f.kind])
    /\ UNCHANGED <<containers, allocated, osBound, pmMu, engInst, uniInst, engMu,
                   ctxDone, usedIds, opsLeft, clients, grants, created, dropped>>

\* m.mu.Lock(); m.instances = the listed instances; m.mu.Unlock(); return them
EListStore(t) ==
    /\ At(t, "EList", "store")
    /\ LET f == Top(t) IN
       /\ CanLock(engMu[f.kind])
       /\ engInst' = [engInst EXCEPT ![f.kind] = f.acc]
       /\ Return(t, [Result("EList", "") EXCEPT !.kind = f.kind, !.list = f.acc])
    /\ UNCHANGED <<containers, allocated, osBound, pmMu, uniInst, engMu, ctxDone,
                   rtFault, usedIds, opsLeft, clients, grants, created, dropped>>

\* The frames of a call of GenericManager.GetInstance(ctx, id) on the engine of kind.
EGetFrame(kind, id) == [Frame("EGet", "lookup") EXCEPT !.kind = kind, !.id = id]

\* m.mu.RLock(); the exact match in m.instances, or else m.ListInstances(ctx)
EGetLookup(t) ==
    /\ At(t, "EGet", "lookup")
    /\ LET f == Top(t) IN
       /\ CanLock(engMu[f.kind])
       /\ stack' = IF Has(engInst[f.kind], f.id)
                   THEN SetTop(t, [f EXCEPT !.pc = "status",
                                            !.inst = Get(engInst[f.kind], f.id)])
                   ELSE Call(t, [f EXCEPT !.pc = "match"],
                             [Frame("EList", "list") EXCEPT !.kind = f.kind])
    /\ UNCHANGED <<containers, allocated, osBound, pmMu, engInst, uniInst, engMu, rv,
                   ctxDone, rtFault, usedIds, opsLeft, clients, grants, created, dropped>>

\* getContainerStatus on the inspect result of an existing container
getContainerStatus(c) ==
    IF c.State # "running" THEN "stopped"
    ELSE CASE c.Health = NoHealth -> "running"
           [] c.Health = "healthy" -> "running"
           [] c.Health = "unhealthy" -> "unhealthy"
           [] c.Health = "starting" -> "starting"
           [] OTHER -> "unknown"

\* The exact match: the status from the runtime ("unknown" when the inspect fails), and
\* a copy of the registered instance with it.
EGetStatus(t) ==
    /\ At(t, "EGet", "status")
    /\ LET f == Top(t) IN
       \E ok \in CallOutcomes(t) :
         LET status == IF ok /\ Exists(f.inst.ContainerID)
                       THEN getContainerStatus(ContainerByID(f.inst.ContainerID))
                       ELSE "unknown"
         IN /\ rtFault' = Faulted(t, ok)
            /\ Return(t, [Result("EGet", "") EXCEPT
                            !.kind = f.kind, !.id = f.id,
                            !.inst = [f.inst EXCEPT !.Status = status]])
    /\ UNCHANGED <<containers, allocated, osBound, pmMu, engInst, uniInst, engMu,
                   ctxDone, usedIds, opsLeft, clients, grants, created, dropped>>

\* The exact matches only.
MatchesExact(instances, id) == {i \in instances : i.ID = id}

\* The listed instances whose ID is id or starts with id.
Matches(instances, id) == {i \in instances : i.ID = id \/ HasPrefix(i.ID, id)}

\* What GetInstance makes of the matches: not found, multiple, or the one match.
MatchResult(kind, id, matches) ==
    LET r == [Result("EGet", "") EXCEPT !.kind = kind, !.id = id] IN
    IF matches = {} THEN [r EXCEPT !.err = "NotFound"]
    ELSE IF Cardinality(matches) > 1 THEN [r EXCEPT !.err = "Ambiguous"]
    ELSE [r EXCEPT !.inst = CHOOSE i \in matches : TRUE]

\* After ListInstances returned: its error, or the outcome of the prefix match.
EGetMatch(t) ==
    /\ At(t, "EGet", "match")
    /\ LET f == Top(t) IN
       IF rv[t].err # ""
       THEN Return(t, [Result("EGet", "ListFailed") EXCEPT !.kind = f.kind, !.id = f.id])
       ELSE Return(t, MatchResult(f.kind, f.id, Matches(rv[t].list, f.id)))
    /\ UNCHANGED <<containers, allocated, osBound, pmMu, engInst, uniInst, engMu,
                   ctxDone, rtFault, usedIds, opsLeft, clients, grants, created, dropped>>

\* The frames of a call of GenericManager.DropInstance(ctx, id): it begins by calling
\* m.GetInstance(ctx, id).
EDropFrames(kind, id) ==
    <<[Frame("EDrop", "stop") EXCEPT !.kind = kind, !.id = id], EGetFrame(kind, id)>>

\* A stop whose failure is returned to the caller.
EDropStopAbort(t) ==
    /\ At(t, "EDrop", "stop")
    /\ LET f == Top(t) IN
       IF rv[t].err # ""
       THEN /\ Return(t, [Result("EDrop", rv[t].err) EXCEPT !.kind = f.kind, !.id = f.id])
            /\ UNCHANGED <<containers, rtFault>>
       ELSE \E ok \in CallOutcomes(t) :
              /\ rtFault' = Faulted(t, ok)
              /\ IF ok /\ Exists(rv[t].inst.ContainerID)
                 THEN /\ containers' = StopContainer(rv[t].inst.ContainerID)
                      /\ stack' = SetTop(t, [f EXCEPT !.pc = "remove", !.inst = rv[t].inst])
                      /\ UNCHANGED rv
                 ELSE /\ Return(t, [Result("EDrop", "StopFailed") EXCEPT
                                      !.kind = f.kind, !.id = f.id, !.inst = rv[t].inst,
                                      !.warn = {"StopFailed"}])
                      /\ UNCHANGED containers
    /\ UNCHANGED <<allocated, osBound, pmMu, engInst, uniInst, engMu, ctxDone, usedIds,
                   opsLeft, clients, grants, created, dropped>>

\* if err != nil { return err }; m.docker.StopContainer, a failure only logged (the
\* frame's errs keeps what was logged): the runtime does not answer, or the container
\* is not there.
EDropStop(t) ==
    /\ At(t, "EDrop", "stop")
    /\ LET f == Top(t) IN
       IF rv[t].err # ""
       THEN /\ Return(t, [Result("EDrop", rv[t].err) EXCEPT !.kind = f.kind, !.id = f.id])
            /\ UNCHANGED <<containers, rtFault>>
       ELSE \E ok \in CallOutcomes(t) :
              /\ rtFault' = Faulted(t, ok)
              /\ containers' = IF ok /\ Exists(rv[t].inst.ContainerID)
                                    /\ ContainerByID(rv[t].inst.ContainerID).State = "running"
                               THEN StopContainer(rv[t].inst.ContainerID)
                               ELSE containers
              /\ stack' = SetTop(t, [f EXCEPT
                             !.pc = "remove", !.inst = rv[t].inst,
                             !.errs = IF ok /\ Exists(rv[t].inst.ContainerID)
                                      THEN {} ELSE {"StopFailed"}])
              /\ UNCHANGED rv
    /\ UNCHANGED <<allocated, osBound, pmMu, engInst, uniInst, engMu, ctxDone, usedIds,
                   opsLeft, clients, grants, created, dropped>>

\* The port released before the removal is attempted.
EDropReleaseFirst(t) ==
    /\ At(t, "EDrop", "remove")
    /\ LET f == Top(t) IN
       \E ok \in CallOutcomes(t) :
         /\ rtFault' = Faulted(t, ok)
         /\ CanLock(pmMu)
         /\ allocated' = ReleasePort(allocated, f.inst.Port)
         /\ grants' = [p \in Ports |-> IF p = f.inst.Port THEN 0 ELSE grants[p]]
         /\ IF ok /\ Exists(f.inst.ContainerID)
            THEN /\ containers' = RemoveContainer(f.inst.ContainerID)
                 /\ stack' = SetTop(t, [f EXCEPT !.pc = "delete"])
                 /\ UNCHANGED rv
            ELSE /\ Return(t, [Result("EDrop", "RemoveFailed") EXCEPT
                                 !.kind = f.kind, !.id = f.id, !.inst = f.inst,
                                 !.warn = f.errs])
                 /\ UNCHANGED containers
    /\ UNCHANGED <<osBound, pmMu, engInst, uniInst, engMu, ctxDone, usedIds, opsLeft,
                   clients, created, dropped>>

\* m.docker.RemoveContainer: on failure return the error; else m.docker.ReleasePort
EDropRemove(t) ==
    /\ At(t, "EDrop", "remove")
    /\ LET f == Top(t) IN
       \E ok \in CallOutcomes(t) :
         /\ rtFault' = Faulted(t, ok)
         /\ IF ok /\ Exists(f.inst.ContainerID)
            THEN /\ containers' = RemoveContainer(f.inst.ContainerID)
                 /\ CanLock(pmMu)
                 /\ allocated' = ReleasePort(allocated, f.inst.Port)
                 /\ grants' = [p \in Ports |-> IF p = f.inst.Port THEN 0 ELSE grants[p]]
                 /\ stack' = SetTop(t, [f EXCEPT !.pc = "delete"])
                 /\ UNCHANGED rv
            ELSE /\ Return(t, [Result("EDrop", "RemoveFailed") EXCEPT
                                 !.kind = f.kind, !.id = f.id, !.inst = f.inst,
                                 !.warn = f.errs])
                 /\ UNCHANGED <<containers, allocated, grants>>
    /\ UNCHANGED <<osBound, pmMu, engInst, uniInst, engMu, ctxDone, usedIds, opsLeft,
                   clients, created, dropped>>

\* m.mu.Lock(); delete(m.instances, instance.ID); m.mu.Unlock(); return nil
EDropDelete(t) ==
    /\ At(t, "EDrop", "delete")
    /\ LET f == Top(t) IN
       /\ CanLock(engMu[f.kind])
       /\ engInst' = [engInst EXCEPT ![f.kind] = Delete(@, f.inst.ID)]
       /\ Return(t, [Result("EDrop", "") EXCEPT
                       !.kind = f.kind, !.id = f.id, !.inst = f.inst, !.warn = f.errs])
    /\ UNCHANGED <<containers, allocated, osBound, pmMu, uniInst, engMu, ctxDone,
                   rtFault, usedIds, opsLeft, clients, grants, created, dropped>>

(***************************************************************************)
(* UnifiedManager.ListInstances, GetInstance, DropInstance                 *)
(***************************************************************************)
\* A client calls UnifiedManager.ListInstances(ctx).
CallList(t) ==
    /\ Begin(t)
    /\ stack' = [stack EXCEPT ![t] = <<[Frame("UList", "next") EXCEPT !.todo = Kinds]>>]
    /\ UNCHANGED <<containers, allocated, osBound, pmMu, engInst, uniInst, engMu,
                   usedIds, clients, grants, created, dropped>>

\* for dbType, manager := range m.managers (in the map's order, which is any order):
\* manager.ListInstances(ctx), a failure logged and skipped; after the loop the
\* registry is replaced by what was listed.  errs: the kinds whose listing failed.
UListNext(t) ==
    /\ At(t, "UList", "next")
    /\ LET f == Top(t)
           back == f.todo # Kinds
           acc == IF back /\ rv[t].err = "" THEN f.acc \cup rv[t].list ELSE f.acc
           errs == IF back /\ rv[t].err # "" THEN f.errs \cup {rv[t].kind} ELSE f.errs
       IN IF f.todo = {}
          THEN /\ uniInst' = acc
               /\ Return(t, [Result("UList", "") EXCEPT !.list = acc, !.failed = errs])
          ELSE /\ \E k \in f.todo :
                    stack' = Call(t, [f EXCEPT !.todo = f.todo \ {k}, !.acc = acc,
                                               !.errs = errs],
                                  [Frame("EList", "list") EXCEPT !.kind = k])
               /\ UNCHANGED <<uniInst, rv>>
    /\ UNCHANGED <<containers, allocated, osBound, pmMu, engInst, engMu, ctxDone,
                   rtFault, usedIds, opsLeft, clients, grants, created, dropped>>

\* The frame of a call of UnifiedManager.GetInstance(ctx, id).
UGetFrame(id) == [Frame("UGet", "lookup") EXCEPT !.id = id]

\* A client calls UnifiedManager.GetInstance(ctx, id).
CallGet(t, id) ==
    /\ Begin(t)
    /\ stack' = [stack EXCEPT ![t] = <<[UGetFrame(id) EXCEPT !.pre = Snapshot]>>]
    /\ UNCHANGED <<containers, allocated, osBound, pmMu, engInst, uniInst, engMu,
                   usedIds, clients, grants, created, dropped>>

\* m.mu.RLock(): the exact match in m.instances and its manager's GetInstance, or else
\* the first turn of the loop over the managers.
UGetLookup(t) ==
    /\ At(t, "UGet", "lookup")
    /\ LET f == Top(t) IN
       IF Has(uniInst, f.id)
       THEN LET inst == Get(uniInst, f.id) IN
            stack' = Call(t, [f EXCEPT !.pc = "found", !.inst = inst],
                          EGetFrame(inst.Type, f.id))
       ELSE \E k \in Kinds :
              stack' = Call(t, [f EXCEPT !.pc = "loop", !.todo = Kinds \ {k}],
                            EGetFrame(k, f.id))
    /\ UNCHANGED <<containers, allocated, osBound, pmMu, engInst, uniInst, engMu, rv,
                   ctxDone, rtFault, usedIds, opsLeft, clients, grants, created, dropped>>

\* if updatedInstance, err := manager.GetInstance(ctx, id); err == nil { return it };
\* return instance, nil
UGetFound(t) ==
    /\ At(t, "UGet", "found")
    /\ LET f == Top(t) IN
       Return(t, [Result("UGet", "") EXCEPT
                    !.id = f.id, !.pre = f.pre,
                    !.inst = IF rv[t].err = "" THEN rv[t].inst ELSE f.inst])
    /\ UNCHANGED <<containers, allocated, osBound, pmMu, engInst, uniInst, engMu,
                   ctxDone, rtFault, usedIds, opsLeft, clients, grants, created, dropped>>

\* for _, manager := range m.managers (any order): the first manager whose GetInstance
\* returns no error wins, its instance is registered and returned; every error is
\* dropped, and after the loop the result is "instance not found".
UGetLoop(t) ==
    /\ At(t, "UGet", "loop")
    /\ LET f == Top(t) IN
       IF rv[t].err = ""
       THEN /\ uniInst' = Put(uniInst, rv[t].inst)
            /\ Return(t, [Result("UGet", "") EXCEPT
                            !.id = f.id, !.pre = f.pre, !.inst = rv[t].inst])
       ELSE IF f.todo = {}
       THEN /\ Return(t, [Result("UGet", "NotFound") EXCEPT !.id = f.id, !.pre = f.pre])
            /\ UNCHANGED uniInst
       ELSE /\ \E k \in f.todo :
                 stack' = Call(t, [f EXCEPT !.todo = f.todo \ {k}], EGetFrame(k, f.id))
            /\ UNCHANGED <<uniInst, rv>>
    /\ UNCHANGED <<containers, allocated, osBound, pmMu, engInst, engMu, ctxDone,
                   rtFault, usedIds, opsLeft, clients, grants, created, dropped>>

\* A client calls UnifiedManager.DropInstance(ctx, id): it begins by calling
\* m.GetInstance(ctx, id).
CallDrop(t, id) ==
    /\ Begin(t)
    /\ stack' = [stack EXCEPT ![t] =
                    <<[Frame("UDrop", "drop") EXCEPT !.id = id, !.pre = Snapshot],
                      UGetFrame(id)>>]
    /\ UNCHANGED <<containers, allocated, osBound, pmMu, engInst, uniInst, engMu,
                   usedIds, clients, grants, created, dropped>>

\* if err != nil { return err }; manager.DropInstance(ctx, id) on the instance's kind
UDropDrop(t) ==
    /\ At(t, "UDrop", "drop")
    /\ LET f == Top(t) IN
       IF rv[t].err # ""
       THEN Return(t, [Result("UDrop", rv[t].err) EXCEPT !.id = f.id, !.pre = f.pre])
       ELSE /\ stack' = [stack EXCEPT ![t] =
                            Append(Caller(t), [f EXCEPT !.pc = "delete",
                                                        !.inst = rv[t].inst])
                            \o EDropFrames(rv[t].inst.Type, f.id)]
            /\ UNCHANGED rv
    /\ UNCHANGED <<containers, allocated, osBound, pmMu, engInst, uniInst, engMu,
                   ctxDone, rtFault, usedIds, opsLeft, clients, grants, created, dropped>>

\* if err != nil { return err }; m.mu.Lock(); delete(m.instances, id); return nil
UDropDelete(t) ==
    /\ At(t, "UDrop", "delete")
    /\ LET f == Top(t) IN
       IF rv[t].err # ""
       THEN /\ Return(t, [Result("UDrop", rv[t].err) EXCEPT
                            !.id = f.id, !.inst = f.inst, !.pre = f.pre,
                            !.warn = rv[t].warn])
            /\ UNCHANGED <<uniInst, dropped>>
       ELSE /\ uniInst' = Delete(uniInst, f.id)
            /\ dropped' = dropped \cup {f.inst.ID}
            /\ Return(t, [Result("UDrop", "") EXCEPT
                            !.id = f.id, !.inst = f.inst, !.pre = f.pre,
                            !.warn = rv[t].warn])
    /\ UNCHANGED <<containers, allocated, osBound, pmMu, engInst, engMu, ctxDone,
                   rtFault, usedIds, opsLeft, clients, grants, created>>

(***************************************************************************)
(* UnifiedManager.ListInstancesByType, HealthCheck; GenericManager.HealthCheck *)
(***************************************************************************)
\* The frames of a call of UnifiedManager.ListInstancesByType(ctx, kind), kind being one
\* of m.managers: return manager.ListInstances(ctx).
UListByTypeFrames(kind) ==
    <<[Frame("UListByType", "ret") EXCEPT !.kind = kind],
      [Frame("EList", "list") EXCEPT !.kind = kind]>>

\* manager.ListInstances returned: its instances or its error are returned as they are.
UListByTypeRet(t) ==
    /\ At(t, "UListByType", "ret")
    /\ LET f == Top(t) IN
       Return(t, [Result("UListByType", rv[t].err) EXCEPT
                    !.kind = f.kind, !.list = rv[t].list])
    /\ UNCHANGED <<containers, allocated, osBound, pmMu, engInst, uniInst, engMu,
                   ctxDone, rtFault, usedIds, opsLeft, clients, grants, created, dropped>>

\* GenericManager.HealthCheck: the result's Status for a container status.
HealthStatus(status) ==
    CASE status = "running" -> "healthy"
      [] status = "starting" -> "starting"
      [] status = "unhealthy" -> "unhealthy"
      [] OTHER -> "unknown"

\* The frames of a call of GenericManager.HealthCheck(ctx, id): it begins by calling
\* m.GetInstance(ctx, id).
EHealthFrames(kind, id) ==
    <<[Frame("EHealth", "status") EXCEPT !.kind = kind, !.id = id], EGetFrame(kind, id)>>

\* if err != nil { return nil, err }; m.getContainerStatus: an inspect failure gives
\* the status unknown with a nil error.
EHealthStatus(t) ==
    /\ At(t, "EHealth", "status")
    /\ LET f == Top(t) IN
       IF rv[t].err # ""
       THEN /\ Return(t, [Result("EHealth", rv[t].err) EXCEPT !.kind = f.kind, !.id = f.id])
            /\ UNCHANGED rtFault
       ELSE \E ok \in CallOutcomes(t) :
              /\ rtFault' = Faulted(t, ok)
              /\ Return(t, [Result("EHealth", "") EXCEPT
                   !.kind = f.kind, !.id = f.id, !.inst = rv[t].inst,
                   !.health =
                      IF ok /\ Exists(rv[t].inst.ContainerID)
                      THEN HealthStatus(getContainerStatus(
                                            ContainerByID(rv[t].inst.ContainerID)))
                      ELSE "unknown"])
    /\ UNCHANGED <<containers, allocated, osBound, pmMu, engInst, uniInst, engMu,
                   ctxDone, usedIds, opsLeft, clients, grants, created, dropped>>

\* The frames of a call of UnifiedManager.HealthCheck(ctx, id): it begins by calling
\* m.GetInstance(ctx, id).
UHealthFrames(id) == <<[Frame("UHealth", "check") EXCEPT !.id = id], UGetFrame(id)>>

\* if err != nil { return nil, err }; manager.HealthCheck(ctx, id) on the instance's kind
UHealthCheck(t) ==
    /\ At(t, "UHealth", "check")
    /\ LET f == Top(t) IN
       IF rv[t].err # ""
       THEN Return(t, [Result("UHealth", rv[t].err) EXCEPT !.id = f.id])
       ELSE /\ stack' = [stack EXCEPT ![t] =
                            Append(Caller(t), [f EXCEPT !.pc = "ret", !.inst = rv[t].inst])
                            \o EHealthFrames(rv[t].inst.Type, f.id)]
            /\ UNCHANGED rv
    /\ UNCHANGED <<containers, allocated, osBound, pmMu, engInst, uniInst, engMu,
                   ctxDone, rtFault, usedIds, opsLeft, clients, grants, created, dropped>>

\* manager.HealthCheck returned: its result or its error are returned as they are.
UHealthRet(t) ==
    /\ At(t, "UHealth", "ret")
    /\ LET f == Top(t) IN
       Return(t, [Result("UHealth", rv[t].err) EXCEPT
                    !.id = f.id, !.inst = f.inst, !.health = rv[t].health])
    /\ UNCHANGED <<containers, allocated, osBound, pmMu, engInst, uniInst, engMu,
                   ctxDone, rtFault, usedIds, opsLeft, clients, grants, created, dropped>>

(***************************************************************************)
(* mcp.ToolHandler: HandleTool and the five tool handlers                  *)
(***************************************************************************)
TCreate == "create_database_instance"
TList == "list_database_instances"
TGet == "get_database_instance"
TDrop == "drop_database_instance"
THealth == "health_check_database"
ToolNames == {TCreate, TList, TGet, TDrop, THealth}

\* No check of the instance_id argument.
IdMissingNever(req) == FALSE

\* instanceID, ok := arguments["instance_id"].(string); if !ok || instanceID == ""
IdMissing(req) == ~req.hasId \/ req.instance_id = NoID

\* The error a handler returns before it calls the manager ("": none).
Rejection(req) ==
    CASE req.name \notin ToolNames -> "UnknownTool"
      [] req.name = TList /\ req.type # "" /\ ~IsValid(req.type) -> "InvalidType"
      [] req.name \in {TGet, TDrop, THealth} /\ IdMissing(req) -> "MissingInstanceID"
      [] OTHER -> ""

\* The handler's frame: ops are the manager operations it has called.
ToolFrame(req, pc, ops) ==
    [Frame("Tool", pc) EXCEPT !.kind = req.name, !.id = req.instance_id, !.req = req,
                              !.acc = ops]

\* The handler's frame and the frames of the first manager operation it calls.
ToolFrames(req) ==
    CASE req.name = TCreate ->
           <<ToolFrame(req, "ret", {"CreateInstance"}),
             [Frame("UCreate", "validate") EXCEPT
                !.opts = [NoOpts EXCEPT !.Type = req.type], !.pre = Snapshot]>>
      [] req.name = TList /\ req.type # "" ->
           <<ToolFrame(req, "ret", {"ListInstancesByType"})>>
           \o UListByTypeFrames(req.type)
      [] req.name = TList /\ req.type = "" ->
           <<ToolFrame(req, "ret", {"ListInstances"}),
             [Frame("UList", "next") EXCEPT !.todo = Kinds]>>
      [] req.name = TGet ->
           <<ToolFrame(req, "ret", {"GetInstance"}),
             [UGetFrame(req.instance_id) EXCEPT !.pre = Snapshot]>>
      [] req.name = TDrop ->
           <<ToolFrame(req, "drop", {"GetInstance"}),
             [UGetFrame(req.instance_id) EXCEPT !.pre = Snapshot]>>
      [] req.name = THealth ->
           <<ToolFrame(req, "ret", {"HealthCheck"})>> \o UHealthFrames(req.instance_id)

\* What a handler returns: mcp.NewToolResultError or NewToolResultText, and a nil error.
ToolResult(r, req, ops) ==
    [r EXCEPT !.op = "Tool", !.isError = r.err # "", !.terr = "", !.req = req,
              !.ops = ops]

\* A client calls HandleTool(ctx, request): the switch on the name, the handler's
\* parsing of the arguments, and its first call of the manager.
HandleTool(t, req) ==
    /\ t \in clients
    /\ Idle(t)
    /\ opsLeft > 0
    /\ opsLeft' = opsLeft - 1
    /\ req.name = TCreate =>
           Cardinality(usedIds) + PendingCreates < Cardinality(InstanceIDs)
    /\ ctxDone' = [ctxDone EXCEPT ![t] = FALSE]
    /\ rtFault' = [rtFault EXCEPT ![t] = FALSE]
    /\ IF Rejection(req) # ""
       THEN /\ rv' = [rv EXCEPT ![t] = ToolResult(Result("Tool", Rejection(req)), req, {})]
            /\ UNCHANGED stack
       ELSE /\ rv' = [rv EXCEPT ![t] = NoResult]
            /\ stack' = [stack EXCEPT ![t] = ToolFrames(req)]
    /\ UNCHANGED <<containers, allocated, osBound, pmMu, engInst, uniInst, engMu,
                   usedIds, clients, grants, created, dropped>>

\* handleDropDatabaseInstance after GetInstance returned: its error as a result, or
\* h.manager.DropInstance(ctx, instanceID).
ToolDrop(t) ==
    /\ At(t, "Tool", "drop")
    /\ LET f == Top(t) IN
       IF rv[t].err # ""
       THEN Return(t, ToolResult(rv[t], f.req, f.acc))
       ELSE /\ stack' = [stack EXCEPT ![t] =
                            <<[f EXCEPT !.pc = "ret", !.acc = @ \cup {"DropInstance"}],
                              [Frame("UDrop", "drop") EXCEPT !.id = f.id, !.pre = Snapshot],
                              UGetFrame(f.id)>>]
            /\ UNCHANGED rv
    /\ UNCHANGED <<containers, allocated, osBound, pmMu, engInst, uniInst, engMu,
                   ctxDone, rtFault, usedIds, opsLeft, clients, grants, created, dropped>>

\* The manager operation returned: its error as an error result, or its value as text.
ToolRet(t) ==
    /\ At(t, "Tool", "ret")
    /\ LET f == Top(t) IN Return(t, ToolResult(rv[t], f.req, f.acc))
    /\ UNCHANGED <<containers, allocated, osBound, pmMu, engInst, uniInst, engMu,
                   ctxDone, rtFault, usedIds, opsLeft, clients, grants, created, dropped>>

(***************************************************************************)
(* GenericManager.Cleanup and UnifiedManager.Cleanup (Server.Stop, Close)  *)
(***************************************************************************)
\* The loop over the listed instances stopped at the first failed drop.
CleanupRestAbort(todo, errs) == IF errs # {} THEN {} ELSE todo

\* for _, instance := range instances: the instances the loop still visits once errs
\* holds the failed drops; a failure is appended and the loop goes on.
CleanupRest(todo, errs) == todo

\* The frames of a call of GenericManager.Cleanup(ctx) on the engine of kind: it begins
\* by calling m.ListInstances(ctx).
ECleanupFrames(kind) ==
    <<[Frame("ECleanup", "next") EXCEPT !.kind = kind],
      [Frame("EList", "list") EXCEPT !.kind = kind]>>

\* After ListInstances returned: if err != nil { return "failed to list ... for
\* cleanup" }, else the loop begins.  One turn of the loop: the error of the drop that
\* returned is appended, and m.DropInstance(ctx, instance.ID) is called on the next
\* instance; after the loop the errors are returned as one, or nil.
ECleanupNext(t) ==
    /\ At(t, "ECleanup", "next")
    /\ LET f == Top(t)
           first == rv[t].op = "EList"
           errs == IF ~first /\ rv[t].err # "" THEN f.errs \cup {rv[t].id} ELSE f.errs
           acc == IF first THEN rv[t].list ELSE f.acc
           rest == CleanupRest(IF first THEN rv[t].list ELSE f.todo, errs)
       IN IF first /\ rv[t].err # ""
          THEN Return(t, [Result("ECleanup", "ListFailed") EXCEPT !.kind = f.kind])
          ELSE IF rest = {}
          THEN Return(t, [Result("ECleanup", IF errs = {} THEN "" ELSE "CleanupFailed")
                            EXCEPT !.kind = f.kind, !.list = acc, !.tried = f.tried,
                                   !.failed = errs])
          ELSE /\ \E i \in rest :
                    stack' = [stack EXCEPT ![t] =
                                 Append(Caller(t), [f EXCEPT !.todo = rest \ {i},
                                                             !.errs = errs, !.acc = acc,
                                                             !.tried = @ \cup {i.ID}])
                                 \o EDropFrames(f.kind, i.ID)]
               /\ UNCHANGED rv
    /\ UNCHANGED <<containers, allocated, osBound, pmMu, engInst, uniInst, engMu,
                   ctxDone, rtFault, usedIds, opsLeft, clients, grants, created, dropped>>

\* Server.Stop or Server.Close calls UnifiedManager.Cleanup(ctx); the server takes no
\* call after it.
CallCleanup(t) ==
    /\ t \in clients
    /\ Idle(t)
    /\ clients' = clients \ {t}
    /\ ctxDone' = [ctxDone EXCEPT ![t] = FALSE]
    /\ rtFault' = [rtFault EXCEPT ![t] = FALSE]
    /\ rv' = [rv EXCEPT ![t] = NoResult]
    /\ stack' = [stack EXCEPT ![t] = <<[Frame("UCleanup", "next") EXCEPT !.todo = Kinds]>>]
    /\ UNCHANGED <<containers, allocated, osBound, pmMu, engInst, uniInst, engMu,
                   usedIds, opsLeft, grants, created, dropped>>

\* for dbType, manager := range m.managers (any order): manager.Cleanup(ctx), an error
\* logged and appended; after the loop m.instances is replaced by an empty map and the
\* errors are returned as one, or nil.  failed: the kinds whose cleanup failed.
UCleanupNext(t) ==
    /\ At(t, "UCleanup", "next")
    /\ LET f == Top(t)
           back == rv[t].op = "ECleanup"
           errs == IF back /\ rv[t].err # "" THEN f.errs \cup {rv[t].kind} ELSE f.errs
           acc == IF back THEN f.acc \cup rv[t].list ELSE f.acc
           tried == IF back THEN f.tried \cup rv[t].tried ELSE f.tried
       IN IF f.todo = {}
          THEN /\ uniInst' = {}
               /\ Return(t, [Result("UCleanup", IF errs = {} THEN "" ELSE "CleanupFailed")
                               EXCEPT !.list = acc, !.tried = tried, !.failed = errs])
          ELSE /\ \E k \in f.todo :
                    stack' = [stack EXCEPT ![t] =
                                 Append(Caller(t), [f EXCEPT !.todo = f.todo \ {k},
                                                             !.errs = errs, !.acc = acc,
                                                             !.tried = tried])
                                 \o ECleanupFrames(k)]
               /\ UNCHANGED <<uniInst, rv>>
    /\ UNCHANGED <<containers, allocated, osBound, pmMu, engInst, engMu, ctxDone,
                   rtFault, usedIds, opsLeft, clients, grants, created, dropped>>

(***************************************************************************)
(* The environment                                                         *)
(***************************************************************************)
\* The caller cancels the context of the operation in progress.
CancelCtx(t) ==
    /\ ~Idle(t)
    /\ ~ctxDone[t]
    /\ ctxDone' = [ctxDone EXCEPT ![t] = TRUE]
    /\ UNCHANGED <<containers, allocated, osBound, pmMu, engInst, uniInst, engMu, stack,
                   rv, rtFault, usedIds, opsLeft, clients, grants, created, dropped>>

\* A running container's health check reports its first verdict.
HealthChange(cid, h) ==
    /\ Exists(cid)
    /\ ContainerByID(cid).State = "running"
    /\ ContainerByID(cid).Health = "starting"
    /\ containers' = {IF c.ID = cid THEN [c EXCEPT !.Health = h] ELSE c : c \in containers}
    /\ UNCHANGED <<allocated, osBound, pmMu, engInst, uniInst, engMu, stack, rv, ctxDone,
                   rtFault, usedIds, opsLeft, clients, grants, created, dropped>>

\* A running container is killed from outside (docker kill, a crash).
ExternalKill(cid) ==
    /\ opsLeft > 0
    /\ opsLeft' = opsLeft - 1
    /\ Exists(cid)
    /\ ContainerByID(cid).State = "running"
    /\ containers' = StopContainer(cid)
    /\ UNCHANGED <<allocated, osBound, pmMu, engInst, uniInst, engMu, stack, rv, ctxDone,
                   rtFault, usedIds, clients, grants, created, dropped>>

\* A container is removed from outside (docker rm -f).
ExternalRemove(cid) ==
    /\ opsLeft > 0
    /\ opsLeft' = opsLeft - 1
    /\ Exists(cid)
    /\ containers' = RemoveContainer(cid)
    /\ rtFault' = [t \in Threads |-> TRUE]
    /\ UNCHANGED <<allocated, osBound, pmMu, engInst, uniInst, engMu, stack, rv, ctxDone,
                   usedIds, clients, grants, created, dropped>>

(***************************************************************************)
(* The port manager on its own: goroutines calling AllocatePort and        *)
(* ReleasePort while other processes bind and release ports of the range.  *)
(***************************************************************************)
\* A goroutine calls pm.AllocatePort(ctx).
PmCallAllocate(t) ==
    /\ Idle(t)
    /\ stack' = [stack EXCEPT ![t] =
                    <<[Frame("AllocatePort", "lock") EXCEPT
                         !.overlap = \E u \in Threads \ {t} : ~Idle(u)]>>]
    /\ UNCHANGED <<containers, allocated, osBound, pmMu, engInst, uniInst, engMu, rv,
                   ctxDone, rtFault, usedIds, opsLeft, clients, grants, created, dropped>>

\* A goroutine calls pm.ReleasePort(port).
PmCallRelease(t, port) ==
    /\ Idle(t)
    /\ CanLock(pmMu)
    /\ allocated' = ReleasePort(allocated, port)
    /\ grants' = [grants EXCEPT ![port] = 0]
    /\ rv' = [rv EXCEPT ![t] = [Result("ReleasePort", "") EXCEPT
                                  !.port = port, !.held0 = allocated,
                                  !.held1 = ReleasePort(allocated, port)]]
    /\ UNCHANGED <<containers, osBound, pmMu, engInst, uniInst, engMu, stack,
                   ctxDone, rtFault, usedIds, opsLeft, clients, created, dropped>>

\* Another process binds or closes a listener on a port of the range.
OsToggle(port) ==
    /\ osBound' = IF port \in osBound THEN osBound \ {port} ELSE osBound \cup {port}
    /\ UNCHANGED <<containers, allocated, pmMu, engInst, uniInst, engMu, stack, rv,
                   ctxDone, rtFault, usedIds, opsLeft, clients, grants, created, dropped>>

InitCommon ==
    /\ containers = {}
    /\ allocated = {}
    /\ pmMu = NoThread
    /\ engInst = [k \in Kinds |-> {}]
    /\ uniInst = {}
    /\ engMu = [k \in Kinds |-> NoThread]
    /\ stack = [t \in Threads |-> <<>>]
    /\ rv = [t \in Threads |-> NoResult]
    /\ ctxDone = [t \in Threads |-> FALSE]
    /\ rtFault = [t \in Threads |-> FALSE]
    /\ usedIds = {}
    /\ grants = [p \in Ports |-> 0]
    /\ created = {}
    /\ dropped = {}

InitPort ==
    /\ InitCommon
    /\ opsLeft = 0
    /\ osBound = {}
    /\ clients = Threads

NextPort ==
    \/ \E t \in Threads : PmCallAllocate(t)
    \/ \E t \in Threads : PmLock(t)
    \/ \E t \in Threads : PmCheck(t)
    \/ \E t \in Threads : PmProbe(t)
    \/ \E t \in Threads, port \in Ports : PmCallRelease(t, port)
    \/ \E port \in Ports : OsToggle(port)

SpecPort == InitPort /\ [][NextPort]_vars

(***************************************************************************)
(* Claims about the port manager (checked under SpecPort)                  *)
(***************************************************************************)
\* C5: between two releases of a port, concurrent AllocatePort calls never hand the
\* same port to two callers: the ports granted and not yet released are distinct.
C5_DistinctPorts == \A p \in Ports : grants[p] <= 1

\* Two overlapping AllocatePort calls have both returned, with different ports.
C5_Witness ==
    \E t \in Threads, u \in Threads :
        /\ t # u
        /\ rv[t].op = "AllocatePort" /\ rv[t].err = "" /\ rv[t].overlap
        /\ rv[u].op = "AllocatePort" /\ rv[u].err = ""
        /\ rv[t].port # rv[u].port
        /\ grants[rv[t].port] = 1 /\ grants[rv[u].port] = 1

\* C6: AllocatePort returns a port only if it lies in the range, was not held when the
\* call took the mutex and nothing was bound on it when it was probed, and then held
\* gains exactly that port; it fails only when every port of the range was held or was
\* bound when probed, and then held is unchanged.
C6_AllocateContract ==
    \A t \in Threads :
        rv[t].op = "AllocatePort" =>
            IF rv[t].err = ""
            THEN /\ rv[t].port \in Ports
                 /\ rv[t].port \notin rv[t].held0
                 /\ rv[t].port \notin rv[t].failed
                 /\ rv[t].held1 = rv[t].held0 \cup {rv[t].port}
            ELSE /\ \A p \in Ports : p \in rv[t].held0 \/ p \in rv[t].failed
                 /\ rv[t].held1 = rv[t].held0

\* One call skipped a bound port and returned a higher one; another call failed with
\* one port held and the other bound.
C6_Witness ==
    \E t \in Threads, u \in Threads :
        /\ rv[t].op = "AllocatePort" /\ rv[t].err = "" /\ rv[t].failed # {}
        /\ rv[u].op = "AllocatePort" /\ rv[u].err = "NoFreePort"
        /\ rv[u].held0 # {} /\ rv[u].failed # {}

\* C23: PortManager.ReleasePort(p) leaves p not held and every other port as it was,
\* so that releasing a port that is not held changes nothing; and GetAllocatedPorts
\* is the set of the ports AllocatePort granted and ReleasePort has not released since.
C23_ReleaseContract ==
    /\ \A t \in Threads :
          rv[t].op = "ReleasePort" =>
              /\ rv[t].port \notin rv[t].held1
              /\ rv[t].held1 \ {rv[t].port} = rv[t].held0 \ {rv[t].port}
              /\ rv[t].port \notin rv[t].held0 => rv[t].held1 = rv[t].held0
    /\ GetAllocatedPorts = {p \in Ports : grants[p] > 0}
    /\ \A p \in Ports : IsPortAllocated(p) <=> grants[p] > 0

\* One of two held ports has been released and the other is still held.
C23_Witness ==
    \E t \in Threads :
        /\ rv[t].op = "ReleasePort"
        /\ rv[t].port \in rv[t].held0
        /\ rv[t].held1 # {}
        /\ GetAllocatedPorts = rv[t].held1

(***************************************************************************)
(* The managers: client goroutines calling the UnifiedManager              *)
(***************************************************************************)
ContainerIDs == {NewContainerID(i) : i \in InstanceIDs}

Init ==
    /\ InitCommon
    /\ opsLeft = MaxOps
    /\ osBound = {}
    /\ clients = {"t1"}

Next ==
    \/ \E t \in Threads, o \in CreateInputs : CallCreate(t, o)
    \/ \E t \in Threads : UCreateValidate(t)
    \/ \E t \in Threads : ECreateLock(t)
    \/ \E t \in Threads : PmLock(t)
    \/ \E t \in Threads : PmCheck(t)
    \/ \E t \in Threads : PmProbe(t)
    \/ \E t \in Threads : ECreatePull(t)
    \/ \E t \in Threads : ECreateCreate(t)
    \/ \E t \in Threads : ECreateStart(t)
    \/ \E t \in Threads : ECreateWait(t)
    \/ \E t \in Threads : ECreateRollback(t)
    \/ \E t \in Threads : UCreateStore(t)
    \/ \E t \in Threads : CallList(t)
    \/ \E t \in Threads : UListNext(t)
    \/ \E t \in Threads : EListList(t)
    \/ \E t \in Threads : EListStore(t)
    \/ \E t \in Threads, id \in IdArgs : CallGet(t, id)
    \/ \E t \in Threads : UGetLookup(t)
    \/ \E t \in Threads : UGetFound(t)
    \/ \E t \in Threads : UGetLoop(t)
    \/ \E t \in Threads : EGetLookup(t)
    \/ \E t \in Threads : EGetStatus(t)
    \/ \E t \in Threads : EGetMatch(t)
    \/ \E t \in Threads, id \in IdArgs : CallDrop(t, id)
    \/ \E t \in Threads : UDropDrop(t)
    \/ \E t \in Threads : UDropDelete(t)
    \/ \E t \in Threads : EDropStop(t)
    \/ \E t \in Threads : EDropRemove(t)
    \/ \E t \in Threads : EDropDelete(t)
    \/ \E t \in Threads : CancelCtx(t)
    \/ \E cid \in ContainerIDs, h \in {"healthy", "unhealthy"} : HealthChange(cid, h)
    \/ \E cid \in ContainerIDs : ExternalKill(cid)
    \/ \E cid \in ContainerIDs : ExternalRemove(cid)

Spec == Init /\ [][Next]_vars


(***************************************************************************)
(* Claims about the managers (checked under Spec)                          *)
(***************************************************************************)
\* A call of the public operation op by t has returned and t has not begun another.
Returned(t, op) == Idle(t) /\ rv[t].op = op

\* The runtime answered every call of t's last operation and no container was removed
\* from outside since it began.
Undisturbed(t) == ~rtFault[t] /\ ~ctxDone[t]

\* The containers whose instance-id label is id or starts with id.
Labelled(id) == {c \in containers : HasPrefix(c.Labels[LInstanceID], id)}

\* C1: after UnifiedManager.DropInstance returned success, given a full id or a prefix,
\* the container of the instance it resolved does not exist and the instance's host
\* port is not in PortManager.allocated.
C1_DropRemovesAndReleases ==
    \A t \in Threads :
        Returned(t, "UDrop") /\ rv[t].err = "" =>
            /\ ~Exists(rv[t].inst.ContainerID)
            /\ rv[t].inst.Port \notin allocated

\* A drop by a proper prefix of the id of an instance CreateInstance had returned has
\* succeeded.
C1_Witness ==
    \E t \in Threads, c \in created :
        /\ Returned(t, "UDrop") /\ rv[t].err = ""
        /\ rv[t].inst.ID = c.ID /\ rv[t].inst.Port = c.Port
        /\ rv[t].id # c.ID /\ rv[t].id # <<>>

\* The ids of the instances successful CreateInstance calls returned.
CreatedIDs == {c.ID : c \in created}

\* C2: after UnifiedManager.DropInstance, given the full id or a non-empty prefix of a
\* created instance, returned success, the instance's full id is in neither the
\* engine's registry nor the unified registry, and a later UnifiedManager.GetInstance
\* with the full id of a dropped instance returns NotFound.
C2_DropForgets ==
    \A t \in Threads :
        /\ Returned(t, "UDrop") /\ rv[t].err = "" /\ rv[t].id # <<>>
           /\ rv[t].inst.ID \in CreatedIDs =>
              /\ ~Has(engInst[rv[t].inst.Type], rv[t].inst.ID)
              /\ ~Has(uniInst, rv[t].inst.ID)
        /\ Returned(t, "UGet") /\ rv[t].id \in dropped \cap CreatedIDs =>
              rv[t].err = "NotFound"

\* The errors GenericManager.CreateInstance returns once its container exists.
AfterContainerErrors ==
    {"ContainerStartFailed", "ReadinessTimeout", "InspectFailed", "ContainerStopped",
     "ReadinessFailed"}

\* The errors GenericManager.CreateInstance returns once its port is allocated.
AfterPortErrors == {"ImageUnavailable", "ContainerCreateFailed"} \cup AfterContainerErrors

\* C3: when GenericManager.CreateInstance returns an error after its port was
\* allocated, the port is not in PortManager.allocated and no container carries the
\* failed instance's id.
C3_FailedCreateLeavesNothing ==
    \A t \in Threads :
        rv[t].op = "ECreate" /\ rv[t].err \in AfterPortErrors =>
            /\ rv[t].port \notin allocated
            /\ \A c \in containers : c.Labels[LInstanceID] # rv[t].id

\* C4: when the caller's context is cancelled and GenericManager.CreateInstance returns
\* an error after it created its container, the container is removed and the port is
\* released on return.
C4_CancelledCreateCleansUp ==
    \A t \in Threads :
        rv[t].op = "ECreate" /\ ctxDone[t] /\ rv[t].err \in AfterContainerErrors =>
            /\ ~Exists(NewContainerID(rv[t].id))
            /\ rv[t].port \notin allocated

\* The fields ListInstances rebuilds from the labels agree with the created instance.
SameListed(c, i) ==
    /\ i.ID = c.ID /\ i.Type = c.Type /\ i.Port = c.Port
    /\ i.Database = c.Database /\ i.Username = c.Username /\ i.Version = c.Version

\* C8: for every instance a successful CreateInstance returned, a later
\* UnifiedManager.ListInstances, with the instance's container still there and the
\* runtime answering the listing of its kind, returns an instance with the same id,
\* kind, host port, database, user and version.
C8_ListRoundTrip ==
    \A t \in Threads, c \in created :
        /\ Returned(t, "UList")
        /\ Exists(c.ContainerID)
        /\ c.Type \notin rv[t].failed
        => \E i \in rv[t].list : SameListed(c, i)

\* A listing has returned two created instances of different kinds, one on the first
\* port and one on the second, one with its own version, database and user.
C8_Witness ==
    \E t \in Threads, c \in created, d \in created :
        /\ Returned(t, "UList")
        /\ c.Type # d.Type /\ c.Port = StartPort /\ d.Port = EndPort
        /\ c.Database # d.Database
        /\ \E i \in rv[t].list : SameListed(c, i)
        /\ \E i \in rv[t].list : SameListed(d, i)

\* C9: UnifiedManager.GetInstance, called with a non-empty prefix of the id of a
\* created instance whose container is the only one the prefix matches, returns an
\* instance with exactly that id (the runtime answering, and no container removed from
\* outside meanwhile).
C9_PrefixResolves ==
    \A t \in Threads, c \in created :
        /\ Returned(t, "UGet") /\ Undisturbed(t)
        /\ rv[t].id # <<>>
        /\ HasPrefix(c.ID, rv[t].id)
        /\ Exists(c.ContainerID)
        /\ Labelled(rv[t].id) = {ContainerByID(c.ContainerID)}
        => rv[t].err = "" /\ rv[t].inst.ID = c.ID

\* A get by a proper prefix has returned the one created instance it matches, while a
\* second instance with another id is there.
C9_Witness ==
    \E t \in Threads, c \in created, d \in created :
        /\ Returned(t, "UGet") /\ Undisturbed(t)
        /\ rv[t].id # <<>> /\ rv[t].id # c.ID /\ HasPrefix(c.ID, rv[t].id)
        /\ Exists(c.ContainerID) /\ Exists(d.ContainerID) /\ c.ID # d.ID
        /\ rv[t].err = "" /\ rv[t].inst.ID = c.ID

\* The created instances of kind k whose container is there and whose id starts with id.
LiveMatches(k, id) ==
    {c \in created : c.Type = k /\ Exists(c.ContainerID) /\ HasPrefix(c.ID, id)}

\* C10: UnifiedManager.GetInstance and DropInstance, called with a non-empty prefix
\* that matches two or more live instances of one kind, fail with Ambiguous (the
\* runtime answering, and no container removed from outside meanwhile).
C10_AmbiguousReported ==
    \A t \in Threads, k \in Kinds :
        /\ Returned(t, "UGet") \/ Returned(t, "UDrop")
        /\ Undisturbed(t)
        /\ rv[t].id # <<>>
        /\ Cardinality(LiveMatches(k, rv[t].id)) >= 2
        => rv[t].err = "Ambiguous"

(***************************************************************************)
(* Port reuse: one client creating default instances and dropping by one   *)
(* id, with a larger budget of operations                                  *)
(***************************************************************************)
InitReuse ==
    /\ InitCommon
    /\ opsLeft = MaxOpsReuse
    /\ osBound = {}
    /\ clients = {"t1"}

NextReuse ==
    \/ \E t \in Threads : CallCreate(t, NoOpts)
    \/ \E t \in Threads : UCreateValidate(t)
    \/ \E t \in Threads : ECreateLock(t)
    \/ \E t \in Threads : PmLock(t)
    \/ \E t \in Threads : PmCheck(t)
    \/ \E t \in Threads : PmProbe(t)
    \/ \E t \in Threads : ECreatePull(t)
    \/ \E t \in Threads : ECreateCreate(t)
    \/ \E t \in Threads : ECreateStart(t)
    \/ \E t \in Threads : ECreateWait(t)
    \/ \E t \in Threads : ECreateRollback(t)
    \/ \E t \in Threads : UCreateStore(t)
    \/ \E t \in Threads : EListList(t)
    \/ \E t \in Threads : EListStore(t)
    \/ \E t \in Threads : UGetLookup(t)
    \/ \E t \in Threads : UGetFound(t)
    \/ \E t \in Threads : UGetLoop(t)
    \/ \E t \in Threads : EGetLookup(t)
    \/ \E t \in Threads : EGetStatus(t)
    \/ \E t \in Threads : EGetMatch(t)
    \/ \E t \in Threads : CallDrop(t, IDOrder[1])
    \/ \E t \in Threads : UDropDrop(t)
    \/ \E t \in Threads : UDropDelete(t)
    \/ \E t \in Threads : EDropStop(t)
    \/ \E t \in Threads : EDropRemove(t)
    \/ \E t \in Threads : EDropDelete(t)
    \/ \E t \in Threads : CancelCtx(t)
    \/ \E cid \in ContainerIDs, h \in {"healthy", "unhealthy"} : HealthChange(cid, h)
    \/ \E cid \in ContainerIDs : ExternalKill(cid)

SpecReuse == InitReuse /\ [][NextReuse]_vars

\* C7: the instances successful UnifiedManager.CreateInstance calls returned whose
\* containers are there at the same time have pairwise distinct host ports.
C7_LivePortsDistinct ==
    \A c \in created, d \in created :
        c.ID # d.ID /\ Exists(c.ContainerID) /\ Exists(d.ContainerID) => c.Port # d.Port

(***************************************************************************)
(* More claims about the managers (checked under Spec)                     *)
(***************************************************************************)
\* C11: UnifiedManager.GetInstance, called with a non-empty prefix that matches one
\* live instance of one kind and one live instance of another kind, fails with
\* Ambiguous, whatever order the managers are asked in.
C11_CrossKindAmbiguous ==
    \A t \in Threads, k1 \in Kinds, k2 \in Kinds :
        /\ Returned(t, "UGet") /\ Undisturbed(t)
        /\ rv[t].id # <<>>
        /\ k1 # k2
        /\ Cardinality(LiveMatches(k1, rv[t].id)) = 1
        /\ Cardinality(LiveMatches(k2, rv[t].id)) = 1
        => rv[t].err = "Ambiguous"

\* Every container in the runtime is the container of an instance a successful
\* CreateInstance returned.
NoLeftovers == \A c \in containers : c.Labels[LInstanceID] \in CreatedIDs

\* C12: UnifiedManager.GetInstance and DropInstance called with the empty identifier
\* fail, whatever instances are there: the empty identifier resolves to no instance.
\* (The error asked for is InvalidOption; the formula asks for an error of any kind,
\* and looks at the calls the runtime answered, made while every container is a
\* created instance's.)
C12_EmptyIdRejected ==
    \A t \in Threads :
        /\ Returned(t, "UGet") \/ Returned(t, "UDrop")
        /\ rv[t].id = <<>>
        /\ Undisturbed(t) /\ NoLeftovers
        => rv[t].err # ""

\* C13: when UnifiedManager.DropInstance fails because the container's removal failed,
\* PortManager.allocated is what it was when the call began (the instance's port is
\* not released) and the instance is still in the engine's registry and in the unified
\* registry.
C13_RemoveFailedKeeps ==
    \A t \in Threads :
        Returned(t, "UDrop") /\ rv[t].err = "RemoveFailed" =>
            /\ allocated = rv[t].pre.allocated
            /\ Has(engInst[rv[t].inst.Type], rv[t].inst.ID)
            /\ Has(uniInst, rv[t].inst.ID)

\* A drop of a created instance has failed at the removal; the container is still
\* there and the port is still held, so the drop can be tried again.
C13_Witness ==
    \E t \in Threads :
        /\ Returned(t, "UDrop") /\ rv[t].err = "RemoveFailed"
        /\ rv[t].inst.ID \in CreatedIDs
        /\ Exists(rv[t].inst.ContainerID)
        /\ rv[t].inst.Port \in allocated

\* The mask that stands for a password that is not known.
PasswordMask == "****"

\* C16: every instance UnifiedManager.ListInstances returns (looked at for the created
\* instances) has the password "****" and the DSN BuildDSN gives for that masked
\* password.
C16_ListedPasswordMasked ==
    \A t \in Threads :
        Returned(t, "UList") =>
            \A i \in rv[t].list :
                i.ID \in CreatedIDs =>
                    /\ i.Password = PasswordMask
                    /\ i.DSN = BuildDSN([i EXCEPT !.Password = PasswordMask])

\* The statuses a listed instance may have.
ListStatuses == {"starting", "running", "unhealthy", "stopped", "unknown"}

\* C18: every created instance UnifiedManager.ListInstances returns has a status in
\* {starting, running, unhealthy, stopped, unknown}; in particular an instance whose
\* container was killed from outside is not listed with the runtime's raw state.
C18_ListedStatus ==
    \A t \in Threads :
        Returned(t, "UList") =>
            \A i \in rv[t].list : i.ID \in CreatedIDs => i.Status \in ListStatuses

\* C20: when UnifiedManager.GetInstance or DropInstance fails with NotFound or
\* Ambiguous, PortManager.allocated, the engines' registries and the unified registry
\* are what they were when the call began (looked at for the calls the runtime
\* answered, made while every container is a created instance's).
C20_FailedLookupChangesNothing ==
    \A t \in Threads :
        /\ Returned(t, "UGet") \/ Returned(t, "UDrop")
        /\ rv[t].err \in {"NotFound", "Ambiguous"}
        /\ Undisturbed(t) /\ NoLeftovers
        => /\ allocated = rv[t].pre.allocated
           /\ engInst = rv[t].pre.engInst
           /\ uniInst = rv[t].pre.uniInst

\* C19: the step in which UnifiedManager.CreateInstance returns InvalidOption for a
\* kind that is none of postgresql, mysql, mariadb changes nothing: the containers,
\* PortManager.allocated, the engines' registries and the unified registry stay as
\* they are.
C19_InvalidKindChangesNothing ==
    [][\A t \in Threads :
          /\ At(t, "UCreate", "validate")
          /\ stack'[t] = <<>>
          /\ rv'[t].op = "UCreate" /\ rv'[t].err = "InvalidOption"
          => UNCHANGED <<containers, allocated, engInst, uniInst>>]_vars

\* A create with an invalid kind has returned InvalidOption while an instance is
\* there, with its container, its port held and its registry entries.
C19_Witness ==
    \E t \in Threads :
        /\ Returned(t, "UCreate") /\ rv[t].err = "InvalidOption"
        /\ containers # {} /\ allocated # {} /\ uniInst # {}
        /\ \E k \in Kinds : engInst[k] # {}

\* Two created instances whose options differ, if at all, in the password only.
SameButPassword(i, j) ==
    /\ i.Type = j.Type /\ i.Version = j.Version
    /\ i.Database = j.Database /\ i.Username = j.Username

\* C17: the labels of a managed container do not depend on the password: the
\* containers of two created instances whose options differ only in the password have
\* the same label keys and the same values but for instance-id, port and created-at
\* (which carry the instance's id and its port), and no label value is the password.
C17_LabelsIgnorePassword ==
    /\ \A i \in created, j \in created :
          Exists(i.ContainerID) /\ Exists(j.ContainerID) /\ SameButPassword(i, j) =>
              LET li == ContainerByID(i.ContainerID).Labels
                  lj == ContainerByID(j.ContainerID).Labels
              IN /\ DOMAIN li = DOMAIN lj
                 /\ \A key \in DOMAIN li \ {LInstanceID, LPort, LCreatedAt} :
                       li[key] = lj[key]
    /\ \A i \in created :
          Exists(i.ContainerID) =>
              LET li == ContainerByID(i.ContainerID).Labels
              IN /\ li[LInstanceID] = i.ID /\ li[LPort] = Itoa(i.Port)
                 /\ \A key \in DOMAIN li \ {LInstanceID, LPort} : li[key] # i.Password

\* Two instances created from options that differ only in the password, both with
\* their containers.
C17_Witness ==
    \E i \in created, j \in created :
        /\ Exists(i.ContainerID) /\ Exists(j.ContainerID)
        /\ SameButPassword(i, j) /\ i.Password # j.Password

(***************************************************************************)
(* Shutdown: one client creating, listing and dropping instances while     *)
(* containers are killed and removed from outside, until the server is     *)
(* stopped and runs UnifiedManager.Cleanup                                 *)
(***************************************************************************)
\* The options the client creates with: the defaults and a mysql instance.
CleanupInputs ==
    {o \in CreateInputs :
        IsValid(ValidateCreateInstanceOptions(o, "").opts.Type) /\ o.Password # "pw2"}

InitCleanup ==
    /\ InitCommon
    /\ opsLeft = MaxOpsCleanup
    /\ osBound = {}
    /\ clients = {"t1"}

NextCleanup ==
    \/ \E t \in Threads, o \in CleanupInputs : CallCreate(t, o)
    \/ \E t \in Threads : UCreateValidate(t)
    \/ \E t \in Threads : ECreateLock(t)
    \/ \E t \in Threads : PmLock(t)
    \/ \E t \in Threads : PmCheck(t)
    \/ \E t \in Threads : PmProbe(t)
    \/ \E t \in Threads : ECreatePull(t)
    \/ \E t \in Threads : ECreateCreate(t)
    \/ \E t \in Threads : ECreateStart(t)
    \/ \E t \in Threads : ECreateWait(t)
    \/ \E t \in Threads : ECreateRollback(t)
    \/ \E t \in Threads : UCreateStore(t)
    \/ \E t \in Threads : CallList(t)
    \/ \E t \in Threads : UListNext(t)
    \/ \E t \in Threads : EListList(t)
    \/ \E t \in Threads : EListStore(t)
    \/ \E t \in Threads : EGetLookup(t)
    \/ \E t \in Threads : EGetStatus(t)
    \/ \E t \in Threads : EGetMatch(t)
    \/ \E t \in Threads : EDropStop(t)
    \/ \E t \in Threads : EDropRemove(t)
    \/ \E t \in Threads : EDropDelete(t)
    \/ \E t \in Threads : CallCleanup(t)
    \/ \E t \in Threads : UGetLookup(t)
    \/ \E t \in Threads : UGetFound(t)
    \/ \E t \in Threads : UGetLoop(t)
    \/ \E t \in Threads : CallDrop(t, IDOrder[1])
    \/ \E t \in Threads : UDropDrop(t)
    \/ \E t \in Threads : UDropDelete(t)
    \/ \E t \in Threads : CancelCtx(t)
    \/ \E cid \in ContainerIDs : ExternalKill(cid)
    \/ \E t \in Threads : UCleanupNext(t)
    \/ \E t \in Threads : ECleanupNext(t)
    \/ \E cid \in ContainerIDs, h \in {"healthy", "unhealthy"} : HealthChange(cid, h)
    \/ \E cid \in ContainerIDs : ExternalRemove(cid)

SpecCleanup == InitCleanup /\ [][NextCleanup]_vars

C15_CleanupReleasesAllPorts ==
    \A t \in Threads :
        /\ Returned(t, "UCleanup") /\ rv[t].err = ""
        /\ Undisturbed(t) /\ usedIds = CreatedIDs
        => allocated = {}

C22_UnavailableBeforeAllocation ==
    [][\A t \in Threads :
          /\ At(t, "ECreate", "pull") /\ ~ctxDone[t]
          /\ rv[t].op = "AllocatePort" /\ rv[t].err = ""
          /\ rv'[t].op = "ECreate" /\ rv'[t].err = "ImageUnavailable"
          => rv[t].port \notin allocated]_vars

(***************************************************************************)
(* Containers of other origin: the runtime already holds containers that   *)
(* carry the managed label when the server starts (left by a server run    *)
(* with another port range, or labelled by hand)                           *)
(***************************************************************************)
\* A running container with the labels of a default postgresql instance id, but for
\* its port label portLabel, published on hostPort.
ForeignContainer(id, portLabel, hostPort) ==
    LET opts == ValidateCreateInstanceOptions(NoOpts, "").opts
        c == NewContainer(opts.Type, id, opts, hostPort)
    IN [c EXCEPT !.Labels = [c.Labels EXCEPT ![LPort] = portLabel],
                 !.State = "running", !.Health = "healthy"]

\* One container of a server run with a range below this one's; one whose port label
\* is no number; one without a port label; one without an instance-id label.
ForeignContainers ==
    { ForeignContainer(<<"x", "a">>, Itoa(StartPort - 1), StartPort - 1),
      ForeignContainer(<<"x", "b">>, <<"p">>, StartPort - 1),
      ForeignContainer(<<"x", "c">>, <<>>, StartPort - 1),
      ForeignContainer(NoID, Itoa(StartPort - 1), StartPort - 1) }

AllContainerIDs == ContainerIDs \cup {c.ID : c \in ForeignContainers}

InitForeign ==
    /\ containers \in SUBSET ForeignContainers
    /\ allocated = {}
    /\ pmMu = NoThread
    /\ engInst = [k \in Kinds |-> {}]
    /\ uniInst = {}
    /\ engMu = [k \in Kinds |-> NoThread]
    /\ stack = [t \in Threads |-> <<>>]
    /\ rv = [t \in Threads |-> NoResult]
    /\ ctxDone = [t \in Threads |-> FALSE]
    /\ rtFault = [t \in Threads |-> FALSE]
    /\ usedIds = {}
    /\ grants = [p \in Ports |-> 0]
    /\ created = {}
    /\ dropped = {}
    /\ opsLeft = MaxOpsForeign
    /\ osBound = {}
    /\ clients = {"t1"}

NextForeign ==
    \/ \E t \in Threads : CallCreate(t, NoOpts)
    \/ \E t \in Threads : UCreateValidate(t)
    \/ \E t \in Threads : ECreateLock(t)
    \/ \E t \in Threads : PmLock(t)
    \/ \E t \in Threads : PmCheck(t)
    \/ \E t \in Threads : PmProbe(t)
    \/ \E t \in Threads : ECreatePull(t)
    \/ \E t \in Threads : ECreateCreate(t)
    \/ \E t \in Threads : ECreateStart(t)
    \/ \E t \in Threads : ECreateWait(t)
    \/ \E t \in Threads : ECreateRollback(t)
    \/ \E t \in Threads : UCreateStore(t)
    \/ \E t \in Threads : CallList(t)
    \/ \E t \in Threads : UListNext(t)
    \/ \E t \in Threads : EListList(t)
    \/ \E t \in Threads : EListStore(t)
    \/ \E t \in Threads : CancelCtx(t)
    \/ \E cid \in AllContainerIDs, h \in {"healthy", "unhealthy"} : HealthChange(cid, h)
    \/ \E cid \in AllContainerIDs : ExternalKill(cid)
    \/ \E cid \in AllContainerIDs : ExternalRemove(cid)

SpecForeign == InitForeign /\ [][NextForeign]_vars

\* C24: every instance UnifiedManager.ListInstances returned has its port in the
\* range of the PortManager, and its container carries non-empty managed, type and
\* instance-id labels and a port label that is a number.
C24_ListedWellFormed ==
    \A t \in Threads :
        Returned(t, "UList") =>
            \A i \in rv[t].list :
                /\ i.Port \in Ports
                /\ i.ID # NoID
                /\ \A c \in containers :
                      c.ID = i.ContainerID =>
                          /\ c.Labels[LManaged] # "" /\ c.Labels[LType] # ""
                          /\ c.Labels[LInstanceID] # NoID
                          /\ IsNumber(c.Labels[LPort])

(***************************************************************************)
(* The tool handler: one MCP client calling tools                          *)
(***************************************************************************)
Req(name, type, hasId, id) ==
    [name |-> name, type |-> type, hasId |-> hasId, instance_id |-> id]

\* The requests the client sends: each tool with valid arguments, with an invalid
\* kind, without instance_id and with an empty one, and a tool that does not exist.
ToolRequests ==
    { Req(TCreate, "", FALSE, NoID), Req(TCreate, "mysql", FALSE, NoID),
      Req(TCreate, "sqlite", FALSE, NoID),
      Req(TList, "", FALSE, NoID), Req(TList, "mysql", FALSE, NoID),
      Req(TList, "sqlite", FALSE, NoID),
      Req(TGet, "", TRUE, IDOrder[1]), Req(TGet, "", FALSE, NoID),
      Req(TGet, "", TRUE, NoID),
      Req(TDrop, "", TRUE, IDOrder[1]), Req(TDrop, "", FALSE, NoID),
      Req(THealth, "", TRUE, IDOrder[1]), Req(THealth, "", TRUE, NoID),
      Req("restart_database_instance", "", TRUE, IDOrder[1]) }

InitTools ==
    /\ InitCommon
    /\ opsLeft = MaxOpsTools
    /\ osBound = {}
    /\ clients = {"t1"}

NextTools ==
    \/ \E t \in Threads, req \in ToolRequests : HandleTool(t, req)
    \/ \E t \in Threads : ToolDrop(t)
    \/ \E t \in Threads : ToolRet(t)
    \/ \E t \in Threads : UCreateValidate(t)
    \/ \E t \in Threads : ECreateLock(t)
    \/ \E t \in Threads : PmLock(t)
    \/ \E t \in Threads : PmCheck(t)
    \/ \E t \in Threads : PmProbe(t)
    \/ \E t \in Threads : ECreatePull(t)
    \/ \E t \in Threads : ECreateCreate(t)
    \/ \E t \in Threads : ECreateStart(t)
    \/ \E t \in Threads : ECreateWait(t)
    \/ \E t \in Threads : ECreateRollback(t)
    \/ \E t \in Threads : UCreateStore(t)
    \/ \E t \in Threads : UListNext(t)
    \/ \E t \in Threads : UListByTypeRet(t)
    \/ \E t \in Threads : EListList(t)
    \/ \E t \in Threads : EListStore(t)
    \/ \E t \in Threads : UGetLookup(t)
    \/ \E t \in Threads : UGetFound(t)
    \/ \E t \in Threads : UGetLoop(t)
    \/ \E t \in Threads : EGetLookup(t)
    \/ \E t \in Threads : EGetStatus(t)
    \/ \E t \in Threads : EGetMatch(t)
    \/ \E t \in Threads : UDropDrop(t)
    \/ \E t \in Threads : UDropDelete(t)
    \/ \E t \in Threads : EDropStop(t)
    \/ \E t \in Threads : EDropRemove(t)
    \/ \E t \in Threads : EDropDelete(t)
    \/ \E t \in Threads : UHealthCheck(t)
    \/ \E t \in Threads : UHealthRet(t)
    \/ \E t \in Threads : EHealthStatus(t)
    \/ \E t \in Threads : CancelCtx(t)
    \/ \E cid \in ContainerIDs, h \in {"healthy", "unhealthy"} : HealthChange(cid, h)
    \/ \E cid \in ContainerIDs : ExternalKill(cid)
    \/ \E cid \in ContainerIDs : ExternalRemove(cid)

SpecTools == InitTools /\ [][NextTools]_vars

\* C25: HandleTool returns a result and a nil error; the result has isError set
\* exactly when the call failed; a call with an unknown tool name, or without a
\* non-empty instance_id for a tool that needs one, fails and calls no manager
\* operation; a list with an invalid kind fails and calls none either; a create
\* with an invalid kind fails.
C25_ToolResults ==
    \A t \in Threads :
        Returned(t, "Tool") =>
            LET r == rv[t] IN
            /\ r.terr = ""
            /\ r.isError <=> (r.err # "")
            /\ (\/ r.req.name \notin ToolNames
                \/ /\ r.req.name \in {TGet, TDrop, THealth}
                   /\ (~r.req.hasId \/ r.req.instance_id = NoID)
                \/ r.req.name = TList /\ r.req.type \notin Kinds \cup {""})
               => r.isError /\ r.ops = {}
            /\ r.req.name = TCreate /\ r.req.type \notin Kinds \cup {""} => r.isError

\* A drop without instance_id was rejected while an instance is there.
C25_Witness ==
    \E t \in Threads :
        /\ Returned(t, "Tool") /\ rv[t].req.name = TDrop /\ ~rv[t].req.hasId
        /\ rv[t].isError /\ rv[t].ops = {}
        /\ uniInst # {} /\ containers # {}

\* The ids on the managed containers of kind k that exist.
LiveIDs(k) == {c.Labels[LInstanceID] : c \in {x \in containers : x.Labels[LType] = k}}

\* C26: a list tool call that succeeded, every runtime call of it answered and no
\* container removed from outside since it began, returned exactly the instances of
\* the managed containers that exist, each once and under its own kind: those of kind
\* k when called with kind k (ListInstancesByType), those of all kinds when called
\* without (ListInstances).
C26_ListByKind ==
    \A t \in Threads :
        /\ Returned(t, "Tool") /\ rv[t].req.name = TList
        /\ ~rv[t].isError /\ Undisturbed(t)
        => LET ks == IF rv[t].req.type = "" THEN Kinds ELSE {rv[t].req.type} IN
           /\ {i.ID : i \in rv[t].list} = UNION {LiveIDs(k) : k \in ks}
           /\ Cardinality(rv[t].list) = Cardinality({i.ID : i \in rv[t].list})
           /\ \A i \in rv[t].list : i.ID \in LiveIDs(i.Type)

\* A list by kind returned the one mysql instance while a postgresql instance is
\* there too.
C26_Witness ==
    \E t \in Threads :
        /\ Returned(t, "Tool") /\ rv[t].req.name = TList /\ rv[t].req.type = "mysql"
        /\ ~rv[t].isError /\ Undisturbed(t)
        /\ Cardinality(rv[t].list) = 1
        /\ LiveIDs("postgresql") # {} /\ LiveIDs("mysql") # {}

(***************************************************************************)
(* The DSN of a postgresql instance, character by character: BuildDSN      *)
(* formats it, postgres.ParseDSN (url.Parse) reads it back                 *)
(***************************************************************************)
MaxPasswordLen == 2

\* The characters of user names, passwords and database names: letters and the
\* characters a URL gives a meaning to (no "%": nothing is percent-decoded).
Letters == {"a", "u", "d"}
PasswordChars == {"a", "/", "@", ":", "?", "#"}

\* The strings over chars of length n, and up to length n.
RECURSIVE StringsOfLen(_, _)
StringsOfLen(chars, n) ==
    IF n = 0 THEN {<<>>}
    ELSE {Append(w, c) : w \in StringsOfLen(chars, n - 1), c \in chars}
StringsUpTo(chars, n) == UNION {StringsOfLen(chars, k) : k \in 0..n}

\* The characters of the fixed parts of the format string.
FormatChars(part) ==
    CASE part = "postgres://" -> <<"p", "o", "s", "t", "g", "r", "e", "s", ":", "/", "/">>
      [] part = ":" -> <<":">>
      [] part = "@localhost:" -> <<"@", "l", "o", "c", "a", "l", "h", "o", "s", "t", ":">>
      [] part = "/" -> <<"/">>
      [] part = "?sslmode=disable" -> <<"?", "s", "s", "l", "m", "o", "d", "e", "=",
                                        "d", "i", "s", "a", "b", "l", "e">>

\* fmt.Sprintf("postgres://%s:%s@localhost:%d/%s?sslmode=disable", ...): the text of
\* the DSN BuildDSN returns for a postgresql instance.
DSNText(instance) ==
    LET d == BuildDSN(instance) IN
    FormatChars(d[1]) \o d[2] \o FormatChars(d[3]) \o d[4] \o FormatChars(d[5])
    \o d[6] \o FormatChars(d[7]) \o d[8] \o FormatChars(d[9])

\* strings.Index and strings.LastIndex for one character (0: not there).
IndexOf(str, c) ==
    IF \E i \in 1..Len(str) : str[i] = c
    THEN CHOOSE i \in 1..Len(str) : str[i] = c /\ \A j \in 1..(i - 1) : str[j] # c
    ELSE 0
LastIndexOf(str, c) ==
    IF \E i \in 1..Len(str) : str[i] = c
    THEN CHOOSE i \in 1..Len(str) : str[i] = c /\ \A j \in (i + 1)..Len(str) : str[j] # c
    ELSE 0

\* The text before the first c (all of it when there is none), and the text after.
Before(str, c) == IF IndexOf(str, c) = 0 THEN str ELSE SubSeq(str, 1, IndexOf(str, c) - 1)
After(str, c) == IF IndexOf(str, c) = 0 THEN <<>>
                 ELSE SubSeq(str, IndexOf(str, c) + 1, Len(str))

\* url.Parse on a text that begins with postgres://, and ParseDSN on its result: the
\* fragment is cut at the first "#", the query at the first "?", the authority ends
\* before the first "/", the user information ends at the last "@" of the authority
\* and is cut at its first ":", the port follows the last ":" of the host and has to
\* be a number (none: 5432).
ParseDSN(text) ==
    LET rest == SubSeq(text, Len(FormatChars("postgres://")) + 1, Len(text))
        hier == Before(Before(rest, "#"), "?")
        authority == Before(hier, "/")
        path == SubSeq(hier, Len(authority) + 1, Len(hier))
        at == LastIndexOf(authority, "@")
        userinfo == SubSeq(authority, 1, at - 1)
        host == SubSeq(authority, at + 1, Len(authority))
        colon == LastIndexOf(host, ":")
        port == IF colon = 0 THEN <<>> ELSE SubSeq(host, colon + 1, Len(host))
    IN IF colon # 0 /\ port # <<>> /\ ~IsNumber(port)
       THEN [err |-> "InvalidDSN", Host |-> <<>>, Port |-> 0, Database |-> <<>>,
             Username |-> <<>>, Password |-> <<>>]
       ELSE [err |-> "",
             Host |-> IF colon = 0 THEN host ELSE SubSeq(host, 1, colon - 1),
             Port |-> IF port = <<>> THEN 5432 ELSE AtoiDigits(port),
             Database |-> IF Len(path) > 0 /\ path[1] = "/"
                          THEN SubSeq(path, 2, Len(path)) ELSE path,
             Username |-> IF at = 0 THEN <<>> ELSE Before(userinfo, ":"),
             Password |-> IF at = 0 THEN <<>> ELSE After(userinfo, ":")]

\* The postgresql instances whose DSN is formatted and parsed.
DSNInputs ==
    {[NoInst EXCEPT !.Type = "postgresql", !.Username = u, !.Password = pw,
                    !.Port = port, !.Database = db] :
        u \in StringsOfLen(Letters, 1), pw \in StringsUpTo(PasswordChars, MaxPasswordLen),
        port \in Ports, db \in StringsOfLen(Letters, 1)}

InitDSN ==
    /\ containers = {}
    /\ allocated = {}
    /\ pmMu = NoThread
    /\ engInst = [k \in Kinds |-> {}]
    /\ uniInst = {}
    /\ engMu = [k \in Kinds |-> NoThread]
    /\ \E i \in DSNInputs :
          stack = [t \in Threads |->
                     IF t = "t1" THEN <<[Frame("ParseDSN", "parse") EXCEPT
                                           !.inst = [i EXCEPT !.DSN = DSNText(i)]]>>
                     ELSE <<>>]
    /\ rv = [t \in Threads |-> NoResult]
    /\ ctxDone = [t \in Threads |-> FALSE]
    /\ rtFault = [t \in Threads |-> FALSE]
    /\ usedIds = {}
    /\ grants = [p \in Ports |-> 0]
    /\ created = {}
    /\ dropped = {}
    /\ opsLeft = 0
    /\ osBound = {}
    /\ clients = {}

\* ParseDSN(instance.DSN): the configuration read back is kept next to the instance.
DSNParse(t) ==
    /\ At(t, "ParseDSN", "parse")
    /\ LET f == Top(t)
           c == ParseDSN(f.inst.DSN)
       IN Return(t, [Result("ParseDSN", c.err) EXCEPT !.inst = f.inst, !.pre = c])
    /\ UNCHANGED <<containers, allocated, osBound, pmMu, engInst, uniInst, engMu,
                   ctxDone, rtFault, usedIds, opsLeft, clients, grants, created, dropped>>

NextDSN == \E t \in Threads : DSNParse(t)

SpecDSN == InitDSN /\ [][NextDSN]_vars

\* C27: parsing the DSN BuildDSN emits for a postgresql instance succeeds and gives
\* back the instance's user, password, port and database, with host localhost.
C27_DSNRoundTrip ==
    \A t \in Threads :
        Returned(t, "ParseDSN") =>
            /\ rv[t].err = ""
            /\ rv[t].pre.Username = rv[t].inst.Username
            /\ rv[t].pre.Password = rv[t].inst.Password
            /\ rv[t].pre.Port = rv[t].inst.Port
            /\ rv[t].pre.Database = rv[t].inst.Database
            /\ rv[t].pre.Host = <<"l", "o", "c", "a", "l", "h", "o", "s", "t">>

(***************************************************************************)
(* The readiness wait with its clock: one client creating instances while  *)
(* the runtime reports what it will of the containers' readiness           *)
(***************************************************************************)
\* What an inspect may report of a running container's readiness: the verdicts of a
\* health check, a Health with another Status, and no Health at all.
ReadinessReports == {"healthy", "unhealthy", "none", NoHealth}

InitReady ==
    /\ containers = {}
    /\ allocated = {}
    /\ pmMu = NoThread
    /\ engInst = [k \in Kinds |-> {}]
    /\ uniInst = {}
    /\ engMu = [k \in Kinds |-> NoThread]
    /\ stack = [t \in Threads |-> <<>>]
    /\ rv = [t \in Threads |-> NoResult]
    /\ ctxDone = [t \in Threads |-> FALSE]
    /\ rtFault = [t \in Threads |-> FALSE]
    /\ usedIds = {}
    /\ grants = [p \in Ports |-> 0]
    /\ created = {}
    /\ dropped = {}
    /\ opsLeft = MaxOpsReady
    /\ osBound = {}
    /\ clients = {"t1"}

\* The steps of a CreateInstance call in progress.
CreateSteps(t) ==
    \/ UCreateValidate(t)
    \/ ECreateLock(t)
    \/ PmLock(t)
    \/ PmCheck(t)
    \/ PmProbe(t)
    \/ ECreatePull(t)
    \/ ECreateCreate(t)
    \/ ECreateStart(t)
    \/ waitForHealthy(t)
    \/ ECreateRollback(t)
    \/ UCreateStore(t)

NextReady ==
    \/ \E t \in Threads, opts \in CreateInputs : CallCreate(t, opts)
    \/ \E t \in Threads : CreateSteps(t)
    \/ \E t \in Threads : CancelCtx(t)
    \/ \E cid \in ContainerIDs, h \in ReadinessReports : HealthChange(cid, h)
    \/ \E cid \in ContainerIDs : ExternalKill(cid)
    \/ \E cid \in ContainerIDs : ExternalRemove(cid)

SpecReady == InitReady /\ [][NextReady]_vars

\* The same with the scheduling the runtime gives: a call in progress takes its next
\* step (a runtime call returns, the ticker or the deadline fires, a free mutex is
\* acquired).
SpecReadyFair ==
    InitReady /\ [][NextReady]_vars /\ \A t \in Threads : WF_vars(CreateSteps(t))

\* C28: the turn of the readiness wait that makes CreateInstance succeed inspected a
\* running container whose readiness was healthy, or that had no readiness at all.
C28_SuccessOnlyWhenHealthy ==
    [][\A t \in Threads :
          (At(t, "ECreate", "wait") /\ rv'[t].op = "ECreate" /\ rv'[t].err = "") =>
              /\ Exists(Top(t).cid)
              /\ ContainerByID(Top(t).cid).State = "running"
              /\ ContainerByID(Top(t).cid).Health \in {"healthy", NoHealth}]_vars

\* C29: the readiness wait makes at most MaxPolls polls and ends, and the
\* CreateInstance call it is part of returns.
C29_WaitTerminates ==
    /\ [](\A t \in Threads : At(t, "ECreate", "wait") => Top(t).polls <= MaxPolls)
    /\ \A t \in Threads : At(t, "ECreate", "wait") ~> ~At(t, "ECreate", "wait")
    /\ \A t \in Threads : (stack[t] # <<>>) ~> Returned(t, "UCreate")

\* The wait has made all its polls, the container still starting.
C29_Witness ==
    \E t \in Threads :
        /\ At(t, "ECreate", "wait")
        /\ Top(t).polls = MaxPolls
        /\ ~ctxDone[t] /\ ~rtFault[t]
        /\ Exists(Top(t).cid)
        /\ ContainerByID(Top(t).cid).State = "running"
        /\ ContainerByID(Top(t).cid).Health = "starting"

(***************************************************************************)
(* Concurrent creates: two clients calling CreateInstance                  *)
(***************************************************************************)
InitConcurrent ==
    /\ InitCommon
    /\ opsLeft = MaxOpsConcurrent
    /\ osBound = {}
    /\ clients = Threads

NextConcurrent ==
    \/ \E t \in Threads, opts \in CreateInputs : CallCreate(t, opts)
    \/ \E t \in Threads : UCreateValidate(t)
    \/ \E t \in Threads : ECreateLock(t)
    \/ \E t \in Threads : PmLock(t)
    \/ \E t \in Threads : PmCheck(t)
    \/ \E t \in Threads : PmProbe(t)
    \/ \E t \in Threads : ECreatePull(t)
    \/ \E t \in Threads : ECreateCreate(t)
    \/ \E t \in Threads : ECreateStart(t)
    \/ \E t \in Threads : ECreateWait(t)
    \/ \E t \in Threads : ECreateRollback(t)
    \/ \E t \in Threads : UCreateStore(t)
    \/ \E t \in Threads : CancelCtx(t)
    \/ \E cid \in ContainerIDs, h \in {"healthy", "unhealthy"} : HealthChange(cid, h)
    \/ \E cid \in ContainerIDs : ExternalKill(cid)
    \/ \E cid \in ContainerIDs : ExternalRemove(cid)

SpecConcurrent == InitConcurrent /\ [][NextConcurrent]_vars

\* t is in the container phase of GenericManager.CreateInstance: createContainer is
\* pulling, creating, starting, waiting for or removing its container.
InContainerPhase(t) ==
    \E pc \in {"pull", "create", "start", "wait", "rollback"} : At(t, "ECreate", pc)

\* C30: a CreateInstance call that is about to enter the engine of a kind while
\* another call is in the container phase on the same engine is not held back: the
\* engine's lock is free, so it can go on into its own container phase.
C30_CreatesOverlap ==
    \A t, u \in Threads :
        (/\ t # u
         /\ InContainerPhase(t)
         /\ At(u, "ECreate", "lock")
         /\ Top(u).kind = Top(t).kind) => CanLock(engMu[Top(u).kind])

(***************************************************************************)
(* Claims about ports and instances over time (checked under Spec)         *)
(***************************************************************************)
\* C31: the port AllocatePort returns is the lowest port of the range that was not
\* held when the call took the mutex and not bound when it was probed; and the
\* instances CreateInstance returned have pairwise different ids, also when one is
\* created after another was dropped and receives its port.
C31_LowestFreePort ==
    /\ \A t \in Threads :
          (rv[t].op = "AllocatePort" /\ rv[t].err = "") =>
              /\ rv[t].port \in Ports \ (rv[t].held0 \cup rv[t].failed)
              /\ \A q \in Ports : q < rv[t].port => q \in rv[t].held0 \cup rv[t].failed
    /\ \A i \in created, j \in created : i # j => i.ID # j.ID

\* A create has returned an instance with the port of an instance that was created and
\* dropped before, under another id.
C31_Witness ==
    \E t \in Threads, c \in created :
        /\ Returned(t, "UCreate") /\ rv[t].err = ""
        /\ c.ID \in dropped
        /\ c.ID # rv[t].inst.ID
        /\ c.Port = rv[t].inst.Port
        /\ c.Port = StartPort

\* C32: a DropInstance whose stop step failed is not aborted by that: it ends with
\* the removal's outcome, and when it returned success the container is gone, the
\* port is released and the engine's registry has no entry for the instance.
C32_StopFailureDoesNotAbort ==
    \A t \in Threads :
        (Returned(t, "UDrop") /\ "StopFailed" \in rv[t].warn) =>
            /\ rv[t].err \in {"", "RemoveFailed"}
            /\ rv[t].err = "" =>
                  /\ ~Exists(rv[t].inst.ContainerID)
                  /\ rv[t].inst.Port \notin allocated
                  /\ ~Has(engInst[rv[t].inst.Type], rv[t].inst.ID)

\* A drop of a created instance returned success although its stop step had failed.
C32_Witness ==
    \E t \in Threads :
        /\ Returned(t, "UDrop") /\ rv[t].err = ""
        /\ "StopFailed" \in rv[t].warn
        /\ rv[t].inst.ID \in CreatedIDs

\* C34: when a ListInstances call has returned, the runtime having answered it and no
\* create being in progress, every port PortManager.allocated holds is the port of an
\* instance the list returned.
C34_NoPortLeak ==
    \A t \in Threads :
        (/\ Returned(t, "UList") /\ rv[t].err = ""
         /\ Undisturbed(t)
         /\ \A u \in Threads : Idle(u)) =>
            \A p \in allocated : \E i \in rv[t].list : i.Port = p

\* C35: the port of an instance CreateInstance returned, whose container is still
\* there (it was not dropped), is in PortManager.allocated, whatever was dropped or
\* rolled back meanwhile.
C35_LivePortStaysHeld ==
    \A i \in created : Exists(i.ContainerID) => i.Port \in allocated

\* C36: no two managed containers that exist at the same time, whatever their state
\* and kind, have the same host port.
C36_HostPortsDistinct ==
    \A c \in containers, d \in containers :
        (c # d /\ c.Labels[LManaged] # "" /\ d.Labels[LManaged] # "") =>
            c.HostPort # d.HostPort

\* C37: UnifiedManager.GetInstance, called with the full id of an instance
\* CreateInstance returned and whose container is still there, returns the password and
\* the DSN CreateInstance returned, whatever calls were made in between.
C37_GetKeepsPassword ==
    \A t \in Threads, c \in created :
        (/\ Returned(t, "UGet") /\ rv[t].err = ""
         /\ rv[t].id = c.ID
         /\ Exists(c.ContainerID)) =>
            /\ rv[t].inst.Password = c.Password
            /\ rv[t].inst.DSN = c.DSN

\* C38: when UnifiedManager.GetInstance has returned an instance, no container having
\* been removed from outside since the call began, a container carrying that
\* instance's id exists: for an identifier no container answers to, the call fails.
C38_GetNotFoundWithoutContainer ==
    \A t \in Threads :
        (Returned(t, "UGet") /\ rv[t].err = "" /\ Undisturbed(t)) =>
            \E c \in containers : c.Labels[LInstanceID] = rv[t].inst.ID

(***************************************************************************)
(* More claims about the tool handler's operations (checked under SpecTools) *)
(***************************************************************************)
\* The health status the runtime state of a container stands for.
StatusOfState(c) ==
    IF c.State # "running" THEN "stopped"
    ELSE CASE c.Health = "healthy" -> "healthy"
           [] c.Health = "unhealthy" -> "unhealthy"
           [] c.Health = "starting" -> "starting"
           [] OTHER -> "unknown"

\* C33: the step in which GenericManager.HealthCheck inspects the instance's container,
\* the runtime answering, gives the status of the container's state: healthy for
\* running and healthy, unhealthy for running and unhealthy, starting for running and
\* starting, stopped for a container that is not running.
C33_HealthStatusOfState ==
    [][\A t \in Threads :
          (/\ At(t, "EHealth", "status")
           /\ rv[t].err = ""
           /\ Exists(rv[t].inst.ContainerID)
           /\ rv'[t].op = "EHealth"
           /\ ~rtFault'[t]) =>
              rv'[t].health = StatusOfState(ContainerByID(rv[t].inst.ContainerID))]_vars

(***************************************************************************)
(* Concurrent operations: two clients calling every operation of the       *)
(* UnifiedManager of a server that started while a container of an earlier *)
(* run was still there                                                     *)
(***************************************************************************)
\* A postgresql container an earlier run of the server left running, with the first
\* port of the range.
Survivor == ForeignContainer(IDOrder[1], Itoa(StartPort), StartPort)

InitRace ==
    /\ containers = {Survivor}
    /\ allocated = {}
    /\ pmMu = NoThread
    /\ engInst = [k \in Kinds |-> {}]
    /\ uniInst = {}
    /\ engMu = [k \in Kinds |-> NoThread]
    /\ stack = [t \in Threads |-> <<>>]
    /\ rv = [t \in Threads |-> NoResult]
    /\ ctxDone = [t \in Threads |-> FALSE]
    /\ rtFault = [t \in Threads |-> FALSE]
    /\ usedIds = {IDOrder[1]}
    /\ grants = [p \in Ports |-> 0]
    /\ created = {}
    /\ dropped = {}
    /\ opsLeft = MaxOpsRace
    /\ osBound = {}
    /\ clients = Threads

\* A client calls UnifiedManager.HealthCheck(ctx, id).
CallHealth(t, id) ==
    /\ Begin(t)
    /\ stack' = [stack EXCEPT ![t] = UHealthFrames(id)]
    /\ UNCHANGED <<containers, allocated, osBound, pmMu, engInst, uniInst, engMu,
                   usedIds, clients, grants, created, dropped>>

\* The steps of the list, get and drop calls in progress.
RaceSteps(t) ==
    \/ UListNext(t)
    \/ EListList(t)
    \/ EListStore(t)
    \/ UGetLookup(t)
    \/ UGetFound(t)
    \/ UGetLoop(t)
    \/ EGetLookup(t)
    \/ EGetStatus(t)
    \/ EGetMatch(t)
    \/ UDropDrop(t)
    \/ UDropDelete(t)
    \/ EDropStop(t)
    \/ EDropRemove(t)
    \/ EDropDelete(t)

NextRace ==
    \/ \E t \in Threads : CallList(t)
    \/ \E t \in Threads : CallGet(t, IDOrder[1])
    \/ \E t \in Threads : CallDrop(t, IDOrder[1])
    \/ \E t \in Threads : RaceSteps(t)

SpecRace == InitRace /\ [][NextRace]_vars

\* C39: when UnifiedManager.DropInstance(id) of one client has returned success and a
\* ListInstances or GetInstance of another client has returned too, neither the
\* registry of the instance's engine nor the unified registry contains the dropped
\* instance's id: a list that sampled the containers before the removal does not put
\* the instance back.
C39_DropNotReinserted ==
    \A t \in Threads, u \in Threads :
        (/\ t # u
         /\ Returned(t, "UDrop") /\ rv[t].err = ""
         /\ Idle(u) /\ rv[u].op \in {"UList", "UGet"}) =>
            /\ ~Has(engInst[rv[t].inst.Type], rv[t].inst.ID)
            /\ ~Has(uniInst, rv[t].inst.ID)

(***************************************************************************)
(* Concurrent operations: every operation of the UnifiedManager, called by  *)
(* two clients at once                                                      *)
(***************************************************************************)
\* The goroutine that runs Server.Stop.
Stopper == "t2"

\* Server.Stop calls UnifiedManager.Cleanup(ctx) while the calls of the other clients
\* go on; the stopping goroutine makes no call after it.
CallStop(t) ==
    /\ t = Stopper
    /\ Begin(t)
    /\ clients' = clients \ {t}
    /\ stack' = [stack EXCEPT ![t] = <<[Frame("UCleanup", "next") EXCEPT !.todo = Kinds]>>]
    /\ UNCHANGED <<containers, allocated, osBound, pmMu, engInst, uniInst, engMu,
                   usedIds, grants, created, dropped>>

\* The steps of the calls in progress: each takes a lock that is free, makes a runtime
\* call that returns, or works on the caller's own data.
LockSteps(t) ==
    \/ UCreateValidate(t)
    \/ ECreateLock(t)
    \/ PmLock(t)
    \/ PmCheck(t)
    \/ PmProbe(t)
    \/ ECreatePull(t)
    \/ ECreateCreate(t)
    \/ ECreateStart(t)
    \/ ECreateWait(t)
    \/ ECreateRollback(t)
    \/ UCreateStore(t)
    \/ RaceSteps(t)
    \/ UHealthCheck(t)
    \/ EHealthStatus(t)
    \/ UHealthRet(t)
    \/ UCleanupNext(t)
    \/ ECleanupNext(t)

\* Either client creates; one client lists, gets, drops and checks health while the
\* other creates or stops the server.  CreateInstance is the one operation that holds a
\* lock across runtime calls and across AllocatePort, Cleanup the one that takes every
\* engine's lock in turn.
NextLocks ==
    \/ \E t \in Threads, opts \in CleanupInputs : CallCreate(t, opts)
    \/ \E t \in Threads \ {Stopper} : CallList(t)
    \/ \E t \in Threads \ {Stopper} : CallGet(t, IDOrder[1])
    \/ \E t \in Threads \ {Stopper} : CallDrop(t, IDOrder[1])
    \/ \E t \in Threads \ {Stopper} : CallHealth(t, IDOrder[1])
    \/ \E t \in Threads : CallStop(t)
    \/ \E t \in Threads : LockSteps(t)

SpecLocks == InitRace /\ [][NextLocks]_vars

\* The locks a thread holds.
Holds(t) == {k \in Kinds : engMu[k] = t} \cup (IF pmMu = t THEN {"pm"} ELSE {})

\* C40: no interleaving of concurrent create, list, get, drop, health check and cleanup
\* calls deadlocks.  Whenever a call is in progress, the thread making it can take its
\* next step or waits for a lock held by another thread whose call is in progress and
\* can take its next step.  A thread that made no call or whose call has returned holds
\* no lock; the allocator's mutex is held only inside AllocatePort, and an engine's
\* lock is held across steps only inside that engine's CreateInstance.
C40_NoDeadlock ==
    /\ \A t \in Threads :
          ~Idle(t) =>
              \/ ENABLED LockSteps(t)
              \/ \E u \in Threads \ {t} :
                    /\ ~Idle(u)
                    /\ Holds(u) # {}
                    /\ ENABLED LockSteps(u)
    /\ \A t \in Threads : Idle(t) => Holds(t) = {}
    /\ \A t \in Threads :
          pmMu = t => \E n \in 1..Len(stack[t]) : stack[t][n].proc = "AllocatePort"
    /\ \A t \in Threads, k \in Kinds :
          engMu[k] = t =>
              \E n \in 1..Len(stack[t]) :
                  stack[t][n].proc = "ECreate" /\ stack[t][n].kind = k

\* A create that holds the lock of its engine waits for the allocator's mutex, which the
\* create of another engine holds together with that engine's lock.
C40_Witness ==
    \E t \in Threads, u \in Threads :
        /\ t # u
        /\ At(t, "AllocatePort", "lock")
        /\ ~ENABLED LockSteps(t)
        /\ Holds(t) # {}
        /\ "pm" \in Holds(u)
        /\ Cardinality(Holds(u)) = 2

====
